---------------------------- MODULE Spec2Model ----------------------------
(***************************************************************************)
(* State-machine model of the ImageStudio component (the variant with      *)
(* export dialog, undo/redo and debounced history).  One variable per      *)
(* useState/useRef cell, one action per event handler.  Every action       *)
(* stands for the handler, the re-render it causes and the effects that    *)
(* re-render runs (the history restore effect in particular).              *)
(*                                                                         *)
(* Coordinates are canvas coordinates as getCanvasCoordinates returns      *)
(* them: fractional numbers.  They are kept as integers counting           *)
(* sub-pixel units, CoordScale units to the pixel.  Image and canvas       *)
(* extents are whole pixels.                                               *)
(***************************************************************************)
EXTENDS Integers, Sequences, FiniteSets, TLC

\* ------------------------------------------------------------------ bounds
MaxHist == 3        \* history entries a commit may leave behind
MaxTurns == 5       \* the same, where only rotations are committed
MaxDrawHist == 4    \* the same, where strokes are committed
MaxIds == 2         \* elements (paths, shapes, texts) ever created
MaxPts == 3         \* points of one freehand path
MaxNeg == 2         \* how far below zero historyIndex is followed
MaxElapsed == 2     \* events that fit into the debounce window of a pending timer
MaxCalls == 2        \* calls in flight at a time
MaxFailCalls == 1    \* ... in the specification of failing calls
MaxChunks == 3       \* fragments of one text stream
MaxImages == 3       \* images of one editOrCreateImage request
MaxLoads == 2        \* image and mask loads pending at a time
CoordScale == 2     \* sub-pixel units per pixel

\* ------------------------------------------------------- program constants
DebounceMs == 400
DefaultBrushSize == 5
DefaultRemoveBrushSize == 20
DefaultTextSize == 32
DefaultOutlineWidth == 2
DefaultStrokeWidth == 4

INITIAL_ADJUSTMENTS ==
    [brightness |-> 100, contrast |-> 100, saturate |-> 100, grayscale |-> 0,
     sepia |-> 0, invert |-> 0, blur |-> 0, hueRotate |-> 0]

INITIAL_TRANSFORMS ==
    [rotate |-> 0, flip |-> [horizontal |-> FALSE, vertical |-> FALSE]]

INITIAL_EDIT_STATE ==
    [adjustments |-> INITIAL_ADJUSTMENTS, transforms |-> INITIAL_TRANSFORMS,
     paths |-> <<>>, texts |-> <<>>, shapes |-> <<>>]

\* The values of ActiveTool; "none" is null.
Tools == {"adjust", "transform", "crop", "draw", "text", "shape", "select",
          "harmonize", "remove"}

\* null for the nullable cells
Null == [null |-> TRUE]

\* The actions that call editOrCreateImage.
Actions == {"submit", "upscale", "harmonize", "removeMasked", "removeBackground",
            "selectSubject"}

\* ------------------------------------------------------------ input sets
AdjustInputs == {[key |-> "brightness", value |-> 150],
                 [key |-> "brightness", value |-> 50]}
DrawPointInputs == {[x |-> 1, y |-> 1]}
ImageInputs == {[w |-> 2, h |-> 1]}
CropImageInputs == {[w |-> 2, h |-> 2]}
CropPointInputs == {[x |-> 0, y |-> 0], [x |-> 1, y |-> 1], [x |-> 3, y |-> 3]}
TextInputs == {<<>>, <<" ">>, <<"h", "i">>}

\* --------------------------------------------------------------- helpers
Min(a, b) == IF a < b THEN a ELSE b
Max(a, b) == IF a > b THEN a ELSE b
Abs(a) == IF a < 0 THEN -a ELSE a

\* The % operator of the language: the result takes the sign of the dividend.
JsRem(a, b) == IF a >= 0 THEN a % b ELSE -((-a) % b)

\* Array.prototype.slice(0, end): a negative end counts from the end.
JsSlice0(s, end) ==
    LET n == Len(s)
        e == IF end < 0 THEN Max(n + end, 0) ELSE Min(end, n)
    IN  SubSeq(s, 1, e)

\* String.prototype.trim on a string kept as a sequence of characters.
RECURSIVE TrimLeft(_)
TrimLeft(s) == IF s # <<>> /\ Head(s) = " " THEN TrimLeft(Tail(s)) ELSE s
RECURSIVE TrimRight(_)
TrimRight(s) ==
    IF s # <<>> /\ s[Len(s)] = " " THEN TrimRight(SubSeq(s, 1, Len(s) - 1)) ELSE s
\* (variant: the text is tested as typed)
Untrimmed(s) == s

Trim(s) == TrimRight(TrimLeft(s))

Range(s) == {s[i] : i \in DOMAIN s}

VARIABLES
    originalImage,      \* Null or the source image [w, h]
    pendingFile,        \* Null or the file whose fileToBase64 is awaited
    activeTool,         \* "none" or a member of Tools (state of App)
    adjustments, transforms, paths, texts, shapes,   \* the working edit state
    cropRect,           \* Null or [x, y, width, height]
    isDrawing,
    currentText,
    textPosition,       \* Null or a point
    shapeType,
    selectedElement,    \* Null or [type, id]
    isDragging,
    dragStartPoint,     \* ref
    removeMask,
    history, historyIndex,
    startPoint,         \* ref: Null or a point
    historyTimeoutRef,  \* ref: 0 (null) or the id of the last timer set
    timers,             \* pending window.setTimeout callbacks
    elapsed,            \* events handled since the pending timer was set
    clock,              \* Date.now()
    canvas,             \* width and height of the canvas element, in pixels
    crashed,            \* an updater or the render effect threw: the tree is gone
    generatedImage,     \* Null or the candidate image [w, h]
    prompt,
    isLoading,
    error,              \* Null or the message shown
    foregroundImage,    \* Null or an image
    pendingForeground,  \* Null or the foreground file whose fileToBase64 is awaited
    subjectMask,        \* Null or an image
    calls,              \* editOrCreateImage calls in flight, counted per action
    playPrompt, playResult, playIsLoading, playError,   \* state of TextPlayground
    stream,             \* Null or the generateTextStream call in flight
    request,            \* an editOrCreateImage request and the parts built for it
    obs,                \* observer of the run, read by the properties only
    layers,             \* what is drawn on the canvas, bottom layer first
    loads,              \* the onload callbacks still to run, oldest first
    imageSrc,           \* imageRef.current.src (Null while it is empty)
    isExportModalOpen,  \* App: the export dialog is shown
    exported            \* Null or the picture of the last download

editVars == <<adjustments, transforms, paths, texts, shapes>>
histVars == <<history, historyIndex>>
timerVars == <<historyTimeoutRef, timers>>
pointerVars == <<isDrawing, isDragging, startPoint, dragStartPoint>>
toolVars == <<cropRect, currentText, textPosition, shapeType, selectedElement,
              removeMask>>
maskVars == <<foregroundImage, subjectMask>>
aiVars == <<generatedImage, prompt, isLoading, error, calls, pendingForeground>>
playVars == <<playPrompt, playResult, playIsLoading, playError, stream>>
exportVars == <<isExportModalOpen, exported>>
paintVars == <<layers, loads, imageSrc>>
outerVars == <<playVars, request, exportVars>>
vars == <<originalImage, pendingFile, activeTool, editVars, histVars, timerVars,
          pointerVars, toolVars, clock, canvas, crashed, elapsed, obs,
          maskVars, aiVars, outerVars, paintVars>>

\* The five edit cells as one EditState value.
Edit ==
    [adjustments |-> adjustments, transforms |-> transforms, paths |-> paths,
     texts |-> texts, shapes |-> shapes]

SetEdit(e) ==
    /\ adjustments' = e.adjustments
    /\ transforms' = e.transforms
    /\ paths' = e.paths
    /\ texts' = e.texts
    /\ shapes' = e.shapes

\* { ...base, ...newStates }
Merge(base, newStates) ==
    [k \in DOMAIN base |-> IF k \in DOMAIN newStates THEN newStates[k] ELSE base[k]]

\* What a render's callbacks close over.
Closure ==
    [history |-> history, historyIndex |-> historyIndex, edit |-> Edit]

\* (variant: the slice stops one entry early, so a commit replaces the current
\* entry instead of following it)
recordHistoryReplacing(cl, newStates) ==
    LET nextState == Merge(cl.edit, newStates)
        newHistory == Append(JsSlice0(cl.history, cl.historyIndex), nextState)
    IN  [history |-> newHistory, historyIndex |-> Len(newHistory) - 1]

\* recordHistory as created by the render `cl`: the new history and index.
recordHistory(cl, newStates) ==
    LET nextState == Merge(cl.edit, newStates)
        newHistory == Append(JsSlice0(cl.history, cl.historyIndex + 1), nextState)
    IN  [history |-> newHistory, historyIndex |-> Len(newHistory) - 1]

\* (variant: the guard reads historyIndex <= 0, so entry 0 is never restored)
RestoreEffectSkipsFirst(h, i, e) ==
    IF i <= 0 \/ i >= Len(h) THEN e ELSE h[i + 1]

\* The history restore effect: the edit state after it ran on (h, i), given
\* the edit state `e` the render started with.
RestoreEffect(h, i, e) ==
    IF i < 0 \/ i >= Len(h) THEN e ELSE h[i + 1]

\* A handler that called recordHistory from the current render: history and
\* index are replaced, the effect runs on them (history is a new array).
Commit(newStates, e) ==
    LET r == recordHistory(Closure, newStates)
    IN  /\ history' = r.history
        /\ historyIndex' = r.historyIndex
        /\ SetEdit(RestoreEffect(r.history, r.historyIndex, e))

\* The observer records what the properties quantify over and the program
\* does not keep: the snapshots committed since the last session reset and the
\* undos since the last commit (while the run is commits followed by undos),
\* the length and last argument of a burst of slider events, a snapshot
\* committed while a debounced commit was pending, the rotate-left clicks in
\* a row, and the paths and adjustments a draw interaction started from.
ObsInit ==
    [valid |-> FALSE, log |-> <<>>, undos |-> 0,
     burst |-> 0, arg |-> Null, fired |-> 0, overlap |-> Null, lefts |-> 0,
     draw |-> Null, stale |-> 0, before |-> Null]

\* the state after construction, but for the service request
InitStudio ==
    /\ originalImage = Null
    /\ pendingFile = Null
    /\ activeTool = "none"
    /\ adjustments = INITIAL_ADJUSTMENTS
    /\ transforms = INITIAL_TRANSFORMS
    /\ paths = <<>>
    /\ texts = <<>>
    /\ shapes = <<>>
    /\ cropRect = Null
    /\ isDrawing = FALSE
    /\ currentText = <<>>
    /\ textPosition = Null
    /\ shapeType = "rectangle"
    /\ selectedElement = Null
    /\ isDragging = FALSE
    /\ dragStartPoint = [x |-> 0, y |-> 0]
    /\ removeMask = <<>>
    /\ history = <<>>
    /\ historyIndex = -1
    /\ startPoint = Null
    /\ historyTimeoutRef = 0
    /\ timers = {}
    /\ elapsed = 0
    /\ clock = 0
    /\ canvas = [w |-> 0, h |-> 0]
    /\ crashed = FALSE
    /\ obs = ObsInit
    /\ generatedImage = Null
    /\ prompt = ""
    /\ isLoading = FALSE
    /\ error = Null
    /\ foregroundImage = Null
    /\ pendingForeground = Null
    /\ subjectMask = Null
    /\ calls = [k \in Actions |-> 0]
    /\ playPrompt = ""
    /\ playResult = <<>>
    /\ playIsLoading = FALSE
    /\ playError = Null
    /\ stream = Null
    /\ layers = <<>>
    /\ loads = <<>>
    /\ imageSrc = Null
    /\ isExportModalOpen = FALSE
    /\ exported = Null

Init == InitStudio /\ request = Null

\* The canvas and the panels below it are rendered only with a source image.
Mounted == ~crashed /\ originalImage # Null

\* (variant: a reset that keeps the two masks)
resetEditsKeepingMasks ==
    /\ SetEdit(INITIAL_EDIT_STATE)
    /\ activeTool' = "none"
    /\ cropRect' = Null
    /\ textPosition' = Null
    /\ currentText' = <<>>
    /\ selectedElement' = Null
    /\ foregroundImage' = Null
    /\ UNCHANGED <<removeMask, subjectMask>>
    /\ history' = <<INITIAL_EDIT_STATE>>
    /\ historyIndex' = 0

\* ------------------------------------------------------------- resetEdits
resetEdits ==
    /\ SetEdit(INITIAL_EDIT_STATE)
    /\ activeTool' = "none"
    /\ cropRect' = Null
    /\ textPosition' = Null
    /\ currentText' = <<>>
    /\ selectedElement' = Null
    /\ foregroundImage' = Null
    /\ removeMask' = <<>>
    /\ subjectMask' = Null
    /\ history' = <<INITIAL_EDIT_STATE>>
    /\ historyIndex' = 0

\* handleFullReset ("Reset All", and the first half of picking a new file)
handleFullReset ==
    /\ Mounted
    /\ originalImage' = Null
    /\ resetEdits
    /\ UNCHANGED <<pendingFile, timerVars, pointerVars, shapeType, clock>>
    /\ generatedImage' = Null
    /\ error' = Null
    /\ UNCHANGED <<prompt, isLoading, calls, pendingForeground, outerVars>>

\* handleFileChange(e, setOriginalImage) up to its await
handleFileChange(file) ==
    /\ ~crashed
    /\ pendingFile = Null
    /\ pendingFile' = file
    /\ originalImage' = Null
    /\ resetEdits
    /\ UNCHANGED <<timerVars, pointerVars, shapeType, clock>>
    /\ generatedImage' = Null
    /\ error' = Null
    /\ UNCHANGED <<prompt, isLoading, calls, pendingForeground, outerVars>>

\* ... and after fileToBase64 resolved
FileRead ==
    /\ ~crashed
    /\ pendingFile # Null
    /\ originalImage' = pendingFile
    /\ pendingFile' = Null
    /\ resetEdits
    /\ UNCHANGED <<timerVars, pointerVars, shapeType, clock>>
    /\ UNCHANGED <<aiVars, outerVars>>

\* ... and after fileToBase64 rejected: the catch block
FileReadFails ==
    /\ ~crashed
    /\ pendingFile # Null
    /\ pendingFile' = Null
    /\ error' = [message |-> "Failed to read file."]
    /\ UNCHANGED <<originalImage, activeTool, editVars, histVars, timerVars,
                   pointerVars, toolVars, clock>>
    /\ UNCHANGED <<maskVars, generatedImage, prompt, isLoading, calls,
                   pendingForeground, outerVars>>

\* ----------------------------------------------------------- undo / redo
handleUndo ==
    /\ Mounted
    /\ IF historyIndex > 0
       THEN /\ historyIndex' = historyIndex - 1
            /\ SetEdit(RestoreEffect(history, historyIndex - 1, Edit))
       ELSE UNCHANGED <<historyIndex, editVars>>
    /\ UNCHANGED <<originalImage, pendingFile, activeTool, history, timerVars,
                   pointerVars, toolVars, clock>>
    /\ UNCHANGED <<maskVars, aiVars, outerVars>>

handleRedo ==
    /\ Mounted
    /\ IF historyIndex < Len(history) - 1
       THEN /\ historyIndex - 1 >= -MaxNeg
            /\ historyIndex' = historyIndex - 1
            /\ SetEdit(RestoreEffect(history, historyIndex - 1, Edit))
       ELSE UNCHANGED <<historyIndex, editVars>>
    /\ UNCHANGED <<originalImage, pendingFile, activeTool, history, timerVars,
                   pointerVars, toolVars, clock>>
    /\ UNCHANGED <<maskVars, aiVars, outerVars>>

\* ------------------------------------------------------------- transforms
Transform(t) ==
    /\ Mounted
    /\ activeTool = "transform"
    /\ Commit([transforms |-> t], [Edit EXCEPT !.transforms = t])
    /\ UNCHANGED <<originalImage, pendingFile, activeTool, timerVars, pointerVars,
                   toolVars, clock>>
    /\ UNCHANGED <<maskVars, aiVars, outerVars>>

\* (variant: the angle is not shifted into the positive range first)
RotateLeftAngleUnshifted(r) == JsRem(r - 90, 360)

RotateLeftAngle(r) == JsRem(r - 90 + 360, 360)
RotateRightAngle(r) == JsRem(r + 90, 360)

RotateLeft == Transform([transforms EXCEPT !.rotate = RotateLeftAngle(@)])
RotateRight == Transform([transforms EXCEPT !.rotate = RotateRightAngle(@)])
FlipHorizontal == Transform([transforms EXCEPT !.flip.horizontal = ~@])
FlipVertical == Transform([transforms EXCEPT !.flip.vertical = ~@])

\* ---------------------------------------------------------------- toolbar
ToolbarClick(t) ==
    /\ ~crashed
    /\ activeTool' = IF activeTool = t THEN "none" ELSE t
    /\ UNCHANGED <<originalImage, pendingFile, editVars, histVars, timerVars,
                   pointerVars, toolVars, clock>>
    /\ UNCHANGED <<maskVars, aiVars, outerVars>>

\* ------------------------------------------------- adjustments (debounced)
\* window.setTimeout numbers its timers; only equality of the numbers is ever
\* observed, so the smallest free one stands for the next one.
NextTimerId ==
    CHOOSE n \in 1..(Cardinality(timers) + 2) :
        /\ n # historyTimeoutRef
        /\ \A t \in timers : t.id # n

clearTimeout(ts, id) == {t \in ts : t.id # id}

\* (variant: the pending timer is not cleared, so timers stack)
recordHistoryWithDebounceStacking(newStates) ==
    LET id == NextTimerId
    IN  /\ timers' = timers \cup {[id |-> id, cl |-> Closure, newStates |-> newStates]}
        /\ historyTimeoutRef' = id

\* recordHistoryWithDebounce(newStates), called from the current render
recordHistoryWithDebounce(newStates) ==
    LET cleared == IF historyTimeoutRef # 0
                   THEN clearTimeout(timers, historyTimeoutRef) ELSE timers
        id == NextTimerId
    IN  /\ timers' = cleared \cup {[id |-> id, cl |-> Closure, newStates |-> newStates]}
        /\ historyTimeoutRef' = id

\* { ...adjustments, [key]: +e.target.value }
NewAdjustments(in) == [adjustments EXCEPT ![in.key] = in.value]

\* onChange of an adjustment slider
SliderChange(in) ==
    LET newAdjustments == NewAdjustments(in)
    IN  /\ Mounted
        /\ activeTool = "adjust"
        /\ adjustments' = newAdjustments
        /\ recordHistoryWithDebounce([adjustments |-> newAdjustments])
        /\ UNCHANGED <<originalImage, pendingFile, activeTool, transforms, paths,
                       texts, shapes, histVars, pointerVars, toolVars, clock>>
        /\ UNCHANGED <<maskVars, aiVars, outerVars>>

\* The timeout callback: recordHistory of the render that set the timer.
TimerFire(t) ==
    LET r == recordHistory(t.cl, t.newStates)
    IN  /\ ~crashed
        /\ t \in timers
        /\ timers' = timers \ {t}
        /\ history' = r.history
        /\ historyIndex' = r.historyIndex
        /\ SetEdit(RestoreEffect(r.history, r.historyIndex, Edit))
        /\ UNCHANGED <<originalImage, pendingFile, activeTool, historyTimeoutRef,
                       pointerVars, toolVars, clock>>
        /\ UNCHANGED <<maskVars, aiVars, outerVars>>

\* ------------------------------------------------------- pointer protocol
\* getCanvasCoordinates yields points of the canvas.
InCanvas(c) == c.x < canvas.w * CoordScale /\ c.y < canvas.h * CoordScale

\* Objects are shared between the working arrays, the snapshots in history and
\* the closures of pending timers.  A path object is never copied, so its id
\* identifies it; a shape object is copied by a drag, so it carries an object
\* identity `oid` besides its id.
AllEdits ==
    {Edit} \cup Range(history)
           \cup UNION {Range(t.cl.history) \cup {t.cl.edit} : t \in timers}

UsedOids == UNION {{sh.oid : sh \in Range(e.shapes)} : e \in AllEdits}

FreshOid == CHOOSE n \in 1..(Cardinality(UsedOids) + 1) : n \notin UsedOids

\* path.points.push(c) on the path object `id`, seen through an array `ps`
PushPoint(ps, id, c) ==
    [i \in DOMAIN ps |->
        IF ps[i].id = id THEN [ps[i] EXCEPT !.points = Append(@, c)] ELSE ps[i]]

\* shape.x2 = c.x; shape.y2 = c.y on the shape object `oid`, seen through `ss`
SetSecondPoint(ss, oid, c) ==
    [i \in DOMAIN ss |->
        IF ss[i].oid = oid THEN [ss[i] EXCEPT !.x2 = c.x, !.y2 = c.y] ELSE ss[i]]

\* An in-place change `m` of an object ("push" on a path, "second" on a
\* shape), as every holder of a reference sees it.
MutatePaths(ps, m) == IF m.kind = "push" THEN PushPoint(ps, m.id, m.c) ELSE ps
MutateShapes(ss, m) == IF m.kind = "second" THEN SetSecondPoint(ss, m.id, m.c) ELSE ss
MutateEdit(e, m) ==
    [e EXCEPT !.paths = MutatePaths(@, m), !.shapes = MutateShapes(@, m)]

MutateObjects(m) ==
    /\ paths' = MutatePaths(paths, m)
    /\ removeMask' = MutatePaths(removeMask, m)
    /\ shapes' = MutateShapes(shapes, m)
    /\ history' = [i \in DOMAIN history |-> MutateEdit(history[i], m)]
    /\ timers' = {[t EXCEPT
                     !.cl.history = [i \in DOMAIN @ |-> MutateEdit(@[i], m)],
                     !.cl.edit = MutateEdit(@, m)] : t \in timers}

\* the hit tests of the select tool
TextHit(t, c) ==
    /\ c.x >= t.x
    /\ 10 * (c.x - t.x) <= 6 * t.size * CoordScale * Len(t.text)
    /\ c.y >= t.y
    /\ c.y <= t.y + t.size * CoordScale

\* a hit test that takes (x1, y1) for the top left corner
ShapeHitUnordered(s, c) ==
    /\ c.x >= s.x1 /\ c.x <= s.x2
    /\ c.y >= s.y1 /\ c.y <= s.y2

ShapeHit(s, c) ==
    /\ c.x >= Min(s.x1, s.x2) /\ c.x <= Max(s.x1, s.x2)
    /\ c.y >= Min(s.y1, s.y2) /\ c.y <= Max(s.y1, s.y2)

\* (variant: the last match wins)
FindTextLast(c) ==
    IF \E i \in DOMAIN texts : TextHit(texts[i], c)
    THEN CHOOSE i \in DOMAIN texts :
            TextHit(texts[i], c) /\ \A j \in (i + 1)..Len(texts) : ~TextHit(texts[j], c)
    ELSE 0

\* Array.prototype.find: the index of the first match, 0 when there is none
FindText(c) ==
    IF \E i \in DOMAIN texts : TextHit(texts[i], c)
    THEN CHOOSE i \in DOMAIN texts :
            TextHit(texts[i], c) /\ \A j \in 1..(i - 1) : ~TextHit(texts[j], c)
    ELSE 0

FindShape(c) ==
    IF \E i \in DOMAIN shapes : ShapeHit(shapes[i], c)
    THEN CHOOSE i \in DOMAIN shapes :
            ShapeHit(shapes[i], c) /\ \A j \in 1..(i - 1) : ~ShapeHit(shapes[j], c)
    ELSE 0

handleMouseDown(c) ==
    LET isRemove == activeTool = "remove"
        newPath == [points |-> <<c>>,
                    color |-> IF isRemove THEN "#ff007f" ELSE "#ffffff",
                    size |-> IF isRemove THEN DefaultRemoveBrushSize ELSE DefaultBrushSize,
                    id |-> clock]
        newShape == [type |-> shapeType, x1 |-> c.x, y1 |-> c.y, x2 |-> c.x,
                     y2 |-> c.y, color |-> "#4285F4",
                     strokeWidth |-> DefaultStrokeWidth, id |-> clock,
                     oid |-> FreshOid]
        ft == FindText(c)
        fs == FindShape(c)
        creates == activeTool \in {"draw", "remove", "shape"}
    IN  /\ Mounted
        /\ InCanvas(c)
        /\ creates => clock < MaxIds
        /\ startPoint' = c
        /\ isDrawing' = TRUE
        /\ paths' = IF activeTool = "draw" THEN Append(paths, newPath) ELSE paths
        /\ removeMask' = IF isRemove THEN Append(removeMask, newPath) ELSE removeMask
        /\ textPosition' = IF activeTool = "text" THEN c ELSE textPosition
        /\ shapes' = IF activeTool = "shape" THEN Append(shapes, newShape) ELSE shapes
        /\ clock' = IF creates THEN clock + 1 ELSE clock
        /\ IF activeTool = "select" /\ ft # 0
           THEN /\ selectedElement' = [type |-> "text", id |-> texts[ft].id]
                /\ isDragging' = TRUE
                /\ dragStartPoint' = [x |-> c.x - texts[ft].x, y |-> c.y - texts[ft].y]
           ELSE IF activeTool = "select" /\ fs # 0
           THEN /\ selectedElement' = [type |-> "shape", id |-> shapes[fs].id]
                /\ isDragging' = TRUE
                /\ dragStartPoint' = [x |-> c.x - shapes[fs].x1, y |-> c.y - shapes[fs].y1]
           ELSE /\ selectedElement' = Null
                /\ UNCHANGED <<isDragging, dragStartPoint>>
        /\ UNCHANGED <<originalImage, pendingFile, activeTool, adjustments, transforms,
                       texts, histVars, timerVars, cropRect, currentText, shapeType>>
        /\ UNCHANGED <<maskVars, aiVars, outerVars>>

\* The draw/remove and shape branches index the last element of the array
\* their updater receives: on an empty array that throws.
MoveThrows ==
    /\ isDrawing
    /\ ~(activeTool = "select" /\ isDragging /\ selectedElement # Null)
    /\ ~(activeTool = "crop" /\ startPoint # Null)
    /\ \/ activeTool = "draw" /\ paths = <<>>
       \/ activeTool = "remove" /\ removeMask = <<>>
       \/ activeTool = "shape" /\ shapes = <<>>

handleMouseMove(c) ==
    /\ Mounted
    /\ InCanvas(c)
    /\ IF ~isDrawing \/ MoveThrows THEN
            UNCHANGED <<editVars, history, timers, cropRect, removeMask>>
       ELSE IF activeTool = "select" /\ isDragging /\ selectedElement # Null THEN
            /\ IF selectedElement.type = "text"
               THEN /\ texts' = [i \in DOMAIN texts |->
                            IF texts[i].id = selectedElement.id
                            THEN [texts[i] EXCEPT !.x = c.x - dragStartPoint.x,
                                                  !.y = c.y - dragStartPoint.y]
                            ELSE texts[i]]
                    /\ UNCHANGED shapes
               ELSE /\ shapes' = [i \in DOMAIN shapes |->
                            IF shapes[i].id # selectedElement.id THEN shapes[i]
                            ELSE LET s == shapes[i]
                                     dx == c.x - dragStartPoint.x - s.x1
                                     dy == c.y - dragStartPoint.y - s.y1
                                 IN  [s EXCEPT !.x1 = s.x1 + dx, !.y1 = s.y1 + dy,
                                               !.x2 = s.x2 + dx, !.y2 = s.y2 + dy,
                                               !.oid = FreshOid]]
                    /\ UNCHANGED texts
            /\ UNCHANGED <<adjustments, transforms, paths, history, timers, cropRect,
                           removeMask>>
       ELSE IF activeTool = "crop" /\ startPoint # Null THEN
            /\ cropRect' = [x |-> Min(startPoint.x, c.x), y |-> Min(startPoint.y, c.y),
                            width |-> Abs(startPoint.x - c.x),
                            height |-> Abs(startPoint.y - c.y)]
            /\ UNCHANGED <<editVars, history, timers, removeMask>>
       ELSE IF activeTool \in {"draw", "remove"} THEN
            LET target == IF activeTool = "draw" THEN paths ELSE removeMask
                last == target[Len(target)]
            IN  /\ Len(last.points) < MaxPts
                /\ MutateObjects([kind |-> "push", id |-> last.id, c |-> c])
                /\ UNCHANGED <<adjustments, transforms, texts, cropRect>>
       ELSE IF activeTool = "shape" THEN
            LET last == shapes[Len(shapes)]
            IN  /\ MutateObjects([kind |-> "second", id |-> last.oid, c |-> c])
                /\ UNCHANGED <<adjustments, transforms, texts, cropRect>>
       ELSE UNCHANGED <<editVars, history, timers, cropRect, removeMask>>
    /\ UNCHANGED <<originalImage, pendingFile, activeTool, historyIndex, historyTimeoutRef,
                   pointerVars, currentText, textPosition, shapeType, selectedElement,
                   clock>>
    /\ UNCHANGED <<maskVars, aiVars, outerVars>>

\* (variant: the commit is not guarded by isDrawing)
handleMouseUpOrLeaveUnguarded ==
    /\ Mounted
    /\ IF activeTool = "draw" THEN Commit([paths |-> paths], Edit)
       ELSE IF activeTool = "shape" THEN Commit([shapes |-> shapes], Edit)
       ELSE IF activeTool = "select" /\ isDragging
            THEN Commit([texts |-> texts, shapes |-> shapes], Edit)
       ELSE UNCHANGED <<editVars, histVars>>
    /\ isDrawing' = FALSE
    /\ isDragging' = FALSE
    /\ startPoint' = Null
    /\ UNCHANGED <<originalImage, pendingFile, activeTool, timerVars, dragStartPoint,
                   toolVars, clock>>
    /\ UNCHANGED <<maskVars, aiVars, outerVars>>

handleMouseUpOrLeave ==
    /\ Mounted
    /\ IF isDrawing /\ activeTool = "draw" THEN Commit([paths |-> paths], Edit)
       ELSE IF isDrawing /\ activeTool = "shape" THEN Commit([shapes |-> shapes], Edit)
       ELSE IF isDrawing /\ activeTool = "select" /\ isDragging
            THEN Commit([texts |-> texts, shapes |-> shapes], Edit)
       ELSE UNCHANGED <<editVars, histVars>>
    /\ isDrawing' = FALSE
    /\ isDragging' = FALSE
    /\ startPoint' = Null
    /\ UNCHANGED <<originalImage, pendingFile, activeTool, timerVars, dragStartPoint,
                   toolVars, clock>>
    /\ UNCHANGED <<maskVars, aiVars, outerVars>>

\* the shape type buttons of the shape panel
setShapeType(t) ==
    /\ Mounted
    /\ activeTool = "shape"
    /\ shapeType' = t
    /\ UNCHANGED <<originalImage, pendingFile, activeTool, editVars, histVars,
                   timerVars, pointerVars, cropRect, currentText, textPosition,
                   selectedElement, removeMask, clock>>
    /\ UNCHANGED <<maskVars, aiVars, outerVars>>

\* ------------------------------------------------------------------- text
setCurrentText(s) ==
    /\ Mounted
    /\ activeTool = "text"
    /\ currentText' = s
    /\ UNCHANGED <<originalImage, pendingFile, activeTool, editVars, histVars,
                   timerVars, pointerVars, cropRect, textPosition, shapeType,
                   selectedElement, removeMask, clock>>
    /\ UNCHANGED <<maskVars, aiVars, outerVars>>

handleAddText ==
    /\ Mounted
    /\ activeTool = "text"
    /\ IF Trim(currentText) # <<>> /\ textPosition # Null THEN
            LET newTexts == Append(texts,
                    [text |-> currentText, x |-> textPosition.x, y |-> textPosition.y,
                     color |-> "#ffffff", size |-> DefaultTextSize, id |-> clock,
                     hasOutline |-> FALSE, outlineColor |-> "#000000",
                     outlineWidth |-> DefaultOutlineWidth])
            IN  /\ clock < MaxIds
                /\ clock' = clock + 1
                /\ Commit([texts |-> newTexts], [Edit EXCEPT !.texts = newTexts])
                /\ currentText' = <<>>
                /\ textPosition' = Null
       ELSE UNCHANGED <<editVars, histVars, currentText, textPosition, clock>>
    /\ UNCHANGED <<originalImage, pendingFile, activeTool, timerVars, pointerVars,
                   cropRect, shapeType, selectedElement, removeMask>>
    /\ UNCHANGED <<maskVars, aiVars, outerVars>>

\* ------------------------------------------------------------------- crop
\* canvas.width and canvas.height are unsigned long attributes: assigning a
\* fractional number stores its integer part.
ToPixels(units) == units \div CoordScale

\* The image handleApplyCrop makes of the crop canvas.  A canvas with no
\* pixels serialises to "data:,", which decodes to no image: w = 0 or h = 0.
CropImage(rect) == [w |-> ToPixels(rect.width), h |-> ToPixels(rect.height)]

handleApplyCrop ==
    /\ Mounted
    /\ activeTool = "crop"
    /\ cropRect # Null
    /\ IF cropRect.width <= 0 \/ cropRect.height <= 0
       THEN UNCHANGED <<originalImage, activeTool, editVars, histVars, toolVars,
                        maskVars>>
       ELSE /\ originalImage' = CropImage(cropRect)
            /\ resetEdits
            /\ UNCHANGED shapeType
    /\ UNCHANGED <<pendingFile, timerVars, pointerVars, clock>>
    /\ UNCHANGED <<aiVars, outerVars>>

\* the Cancel button of the crop panel
CropCancel ==
    /\ Mounted
    /\ activeTool = "crop"
    /\ cropRect # Null
    /\ activeTool' = "none"
    /\ cropRect' = Null
    /\ UNCHANGED <<originalImage, pendingFile, editVars, histVars, timerVars,
                   pointerVars, currentText, textPosition, shapeType, selectedElement,
                   removeMask, clock>>
    /\ UNCHANGED <<maskVars, aiVars, outerVars>>

\* ---------------------------------------------------------- render effect
Decodable(img) == img.w > 0 /\ img.h > 0

\* |cos| and |sin| of a multiple of 90 degrees
AbsCos(deg) == IF JsRem(deg, 180) = 0 THEN 1 ELSE 0
AbsSin(deg) == IF JsRem(deg, 180) = 0 THEN 0 ELSE 1

\* (variant: the canvas always takes the size of the image)
CanvasExtentUnrotated(img, deg) == [w |-> img.w, h |-> img.h]

CanvasExtent(img, deg) ==
    [w |-> img.w * AbsCos(deg) + img.h * AbsSin(deg),
     h |-> img.h * AbsCos(deg) + img.w * AbsSin(deg)]

\* What the render effect reads: its dependency list.
View ==
    [originalImage |-> originalImage, adjustments |-> adjustments,
     transforms |-> transforms, activeTool |-> activeTool, cropRect |-> cropRect,
     paths |-> paths, texts |-> texts, shapes |-> shapes,
     removeMask |-> removeMask, subjectMask |-> subjectMask,
     selectedElement |-> selectedElement]

\* drawPath returns at once on a path of fewer than two points
Drawable(path) == Len(path.points) >= 2
Strokes(ps) == SelectSeq(ps, Drawable)

\* the selection highlight looks the element up by id and draws when found
Highlighted(v) ==
    /\ v.selectedElement # Null
    /\ \/ /\ v.selectedElement.type = "text"
          /\ \E i \in DOMAIN v.texts : v.texts[i].id = v.selectedElement.id
       \/ /\ v.selectedElement.type = "shape"
          /\ \E i \in DOMAIN v.shapes : v.shapes[i].id = v.selectedElement.id

\* render() on a loaded image: the layers it draws before it returns, bottom
\* layer first.  A layer is a record named after what it shows.
render(v) ==
    <<[image |-> v.originalImage, adjustments |-> v.adjustments,
       transforms |-> v.transforms]>>
    \o (IF Strokes(v.paths) # <<>> THEN <<[paths |-> Strokes(v.paths)]>> ELSE <<>>)
    \o (IF v.activeTool = "remove" /\ Strokes(v.removeMask) # <<>>
        THEN <<[removeMask |-> Strokes(v.removeMask)]>> ELSE <<>>)
    \o (IF v.shapes # <<>> THEN <<[shapes |-> v.shapes]>> ELSE <<>>)
    \o (IF v.texts # <<>> THEN <<[texts |-> v.texts]>> ELSE <<>>)
    \o (IF v.activeTool = "crop" /\ v.cropRect # Null
        THEN <<[cropRect |-> v.cropRect]>> ELSE <<>>)
    \o (IF Highlighted(v) THEN <<[selectedElement |-> v.selectedElement]>> ELSE <<>>)

\* maskImg.onload draws the subject mask over whatever the canvas shows
MaskLayer(src) == [subjectMask |-> src]

\* The picture of one render() of the view `v` once its mask has loaded.
Picture(v) ==
    render(v) \o (IF v.subjectMask # Null THEN <<MaskLayer(v.subjectMask)>> ELSE <<>>)

\* The render effect after a handler, when every image it loads has loaded
\* before the next event: it sizes the canvas from the image and draws the
\* picture.  An image that did not decode never fires onload; the first
\* render() on it afterwards finds naturalWidth = 0 and drawImage throws on
\* the broken image.  Without a source image, and after a crash, the canvas
\* element is not mounted.
RenderEffect(throws) ==
    /\ IF throws THEN crashed' = TRUE /\ UNCHANGED canvas
       ELSE IF originalImage' = Null THEN UNCHANGED <<canvas, crashed>>
       ELSE IF Decodable(originalImage')
       THEN /\ canvas' = CanvasExtent(originalImage', transforms'.rotate)
            /\ UNCHANGED crashed
       ELSE IF originalImage' # originalImage THEN UNCHANGED <<canvas, crashed>>
       ELSE IF <<editVars, activeTool, cropRect, removeMask, subjectMask, selectedElement>>'
               # <<editVars, activeTool, cropRect, removeMask, subjectMask, selectedElement>>
       THEN crashed' = TRUE /\ canvas' = [w |-> 0, h |-> 0]
       ELSE UNCHANGED <<canvas, crashed>>
    /\ IF crashed' \/ originalImage' = Null
       THEN layers' = <<>> /\ loads' = <<>> /\ UNCHANGED imageSrc
       ELSE IF Decodable(originalImage')
       THEN /\ layers' = Picture(View')
            /\ loads' = <<>>
            /\ imageSrc' = originalImage'
       ELSE imageSrc' = originalImage' /\ UNCHANGED <<layers, loads>>

\* ------------------------------------------- render effect, step by step
\* The callbacks the render effect leaves behind: image.onload = render
\* (with the view of the effect run that set image.src) and maskImg.onload.
IsImageLoad(l) == "view" \in DOMAIN l
IsMaskLoad(l) == "mask" \in DOMAIN l
ImageLoading == \E i \in DOMAIN loads : IsImageLoad(loads[i])

Without(s, i) == SubSeq(s, 1, i - 1) \o SubSeq(s, i + 1, Len(s))

\* render() starts the load of the subject mask it was given
WithMaskLoad(pending, v) ==
    IF v.subjectMask # Null THEN Append(pending, [mask |-> v.subjectMask]) ELSE pending

\* render() of the view `v` on the loaded image: assigning canvas.width
\* clears the canvas, then the layers are drawn
RunRender(v, pending) ==
    /\ canvas' = CanvasExtent(v.originalImage, v.transforms.rotate)
    /\ layers' = render(v)
    /\ loads' = WithMaskLoad(pending, v)

\* render() while the image is still loading: naturalWidth and naturalHeight
\* are 0, the canvas has no pixels and drawImage draws nothing
RunRenderUnloaded(v, pending) ==
    /\ canvas' = [w |-> 0, h |-> 0]
    /\ layers' = <<>>
    /\ loads' = WithMaskLoad(pending, v)

\* The body of the render effect after a handler, callbacks left pending.
\* It runs when a dependency changed.  Assigning image.src abandons the load
\* of the previous source.
RenderEffectBody(throws) ==
    IF throws
    THEN crashed' = TRUE /\ layers' = <<>> /\ loads' = <<>> /\ UNCHANGED <<canvas, imageSrc>>
    ELSE /\ UNCHANGED crashed
         /\ IF originalImage' = Null
            THEN layers' = <<>> /\ loads' = <<>> /\ UNCHANGED <<canvas, imageSrc>>
            ELSE IF View' = View THEN UNCHANGED <<canvas, paintVars>>
            ELSE IF imageSrc # originalImage'
            THEN /\ imageSrc' = originalImage'
                 /\ loads' = Append(SelectSeq(loads, IsMaskLoad), [view |-> View'])
                 /\ UNCHANGED <<canvas, layers>>
            ELSE /\ UNCHANGED imageSrc
                 /\ IF ImageLoading
                    THEN RunRenderUnloaded(View', loads)
                    ELSE RunRender(View', loads)

\* image.onload: the render() of the effect run that assigned image.src
ImageOnload(i) ==
    /\ ~crashed
    /\ i \in DOMAIN loads /\ IsImageLoad(loads[i])
    /\ RunRender(loads[i].view, Without(loads, i))
    /\ UNCHANGED <<originalImage, pendingFile, activeTool, editVars, histVars,
                   timerVars, pointerVars, toolVars, clock>>
    /\ UNCHANGED <<maskVars, aiVars, outerVars, imageSrc, crashed, elapsed, obs>>

\* maskImg.onload: the mask is drawn over what the canvas shows by then
MaskOnload(i) ==
    /\ ~crashed
    /\ i \in DOMAIN loads /\ IsMaskLoad(loads[i])
    /\ layers' = IF canvas.w = 0 \/ canvas.h = 0 THEN layers
                 ELSE Append(layers, MaskLayer(loads[i].mask))
    /\ loads' = Without(loads, i)
    /\ UNCHANGED <<originalImage, pendingFile, activeTool, editVars, histVars,
                   timerVars, pointerVars, toolVars, clock>>
    /\ UNCHANGED <<maskVars, aiVars, outerVars, imageSrc, canvas, crashed, elapsed,
                   obs>>

\* ----------------------------------------------------------------- export
\* the Export button of the header, enabled while there is a source image
onExportClick ==
    /\ ~crashed
    /\ originalImage # Null
    /\ isExportModalOpen' = TRUE
    /\ UNCHANGED <<originalImage, pendingFile, activeTool, editVars, histVars,
                   timerVars, pointerVars, toolVars, clock>>
    /\ UNCHANGED <<maskVars, aiVars, playVars, request, exported>>

\* the Download button of the export dialog: canvas.toDataURL of the canvas
\* as it is
handleDownload ==
    /\ Mounted
    /\ isExportModalOpen
    /\ exported' = [picture |-> layers]
    /\ isExportModalOpen' = FALSE
    /\ UNCHANGED <<originalImage, pendingFile, activeTool, editVars, histVars,
                   timerVars, pointerVars, toolVars, clock>>
    /\ UNCHANGED <<maskVars, aiVars, playVars, request>>

\* ------------------------------------------------------------ AI actions
\* the frame of a handler that touches only the AI cells
EditorUnchanged ==
    UNCHANGED <<originalImage, pendingFile, activeTool, editVars, histVars,
                timerVars, pointerVars, toolVars, clock>>

ErrorMessage(text) == [message |-> text]

setPrompt(p) ==
    /\ ~crashed
    /\ prompt' = p
    /\ EditorUnchanged
    /\ UNCHANGED <<maskVars, generatedImage, isLoading, error, calls,
                   pendingForeground, outerVars>>

\* handleSubmit(overridePrompt, overrideImages) up to its await; `k` names the
\* caller.  An absent overridePrompt is "", which `||` treats like undefined.
IssueCall(k) ==
    /\ isLoading' = TRUE
    /\ error' = Null
    /\ generatedImage' = Null
    /\ calls' = [calls EXCEPT ![k] = @ + 1]

\* (variant: the prompt is not tested)
handleSubmitUnchecked(overridePrompt, k) == IssueCall(k)

handleSubmit(overridePrompt, k) ==
    LET currentPrompt == IF overridePrompt # "" THEN overridePrompt ELSE prompt
    IN  IF currentPrompt = ""
        THEN /\ error' = ErrorMessage("Please enter a prompt.")
             /\ UNCHANGED <<generatedImage, isLoading, calls>>
        ELSE IssueCall(k)

\* the submit button, disabled while loading and while the prompt is empty
SubmitClick ==
    /\ ~crashed
    /\ ~isLoading /\ prompt # ""
    /\ handleSubmit("", "submit")
    /\ EditorUnchanged
    /\ UNCHANGED <<maskVars, prompt, pendingForeground, outerVars>>

\* handleSubmit() reached with the empty prompt
SubmitEmpty ==
    /\ ~crashed
    /\ prompt = ""
    /\ handleSubmit("", "submit")
    /\ EditorUnchanged
    /\ UNCHANGED <<maskVars, prompt, pendingForeground, outerVars>>

\* the Upscale button of the toolbar
handleUpscale ==
    /\ ~crashed
    /\ handleSubmit("Upscale", "upscale")
    /\ EditorUnchanged
    /\ UNCHANGED <<maskVars, prompt, pendingForeground, outerVars>>

\* handleFileChange(e, setForegroundImage) up to its await, and after it
handleForegroundChange(file) ==
    /\ Mounted
    /\ activeTool = "harmonize"
    /\ pendingForeground' = file
    /\ EditorUnchanged
    /\ UNCHANGED <<maskVars, generatedImage, prompt, isLoading, error, calls,
                   outerVars>>

ForegroundRead ==
    /\ ~crashed
    /\ pendingForeground # Null
    /\ foregroundImage' = pendingForeground
    /\ pendingForeground' = Null
    /\ EditorUnchanged
    /\ UNCHANGED <<subjectMask, generatedImage, prompt, isLoading, error, calls,
                   outerVars>>

\* Apply Harmonize, disabled without a foreground image
handleHarmonize ==
    /\ Mounted
    /\ activeTool = "harmonize" /\ foregroundImage # Null
    /\ handleSubmit("Harmonize", "harmonize")
    /\ EditorUnchanged
    /\ UNCHANGED <<maskVars, prompt, pendingForeground, outerVars>>

\* handleApplyRemove up to its await (the button is rendered with the remove
\* tool and an image)
handleApplyRemove ==
    /\ Mounted
    /\ activeTool = "remove"
    /\ IF originalImage = Null \/ Len(removeMask) = 0
       THEN UNCHANGED <<generatedImage, isLoading, error, calls>>
       ELSE handleSubmit("Remove", "removeMasked")
    /\ EditorUnchanged
    /\ UNCHANGED <<maskVars, prompt, pendingForeground, outerVars>>

\* the Select Subject button of the toolbar, up to its await
handleSelectSubject ==
    /\ ~crashed
    /\ isLoading' = TRUE
    /\ error' = Null
    /\ subjectMask' = Null
    /\ calls' = [calls EXCEPT !["selectSubject"] = @ + 1]
    /\ EditorUnchanged
    /\ UNCHANGED <<foregroundImage, generatedImage, prompt, pendingForeground,
                   outerVars>>

\* Remove Background, rendered while there is a subject mask; up to its await
handleRemoveBackground ==
    /\ Mounted
    /\ IF subjectMask = Null
       THEN UNCHANGED <<generatedImage, isLoading, error, calls>>
       ELSE handleSubmit("Remove the background", "removeBackground")
    /\ EditorUnchanged
    /\ UNCHANGED <<maskVars, prompt, pendingForeground, outerVars>>

\* What the caller of handleSubmit does after its await: handleApplyRemove
\* clears the removal mask, handleRemoveBackground the subject mask.
AfterSubmit(k) ==
    /\ removeMask' = IF k = "removeMasked" THEN <<>> ELSE removeMask
    /\ subjectMask' = IF k = "removeBackground" THEN Null ELSE subjectMask

\* (variant: every resolved action runs the continuation of the masked
\* removal)
CallResolvesClearingMask(k, img) ==
    /\ ~crashed
    /\ calls[k] > 0
    /\ calls' = [calls EXCEPT ![k] = @ - 1]
    /\ isLoading' = FALSE
    /\ removeMask' = <<>>
    /\ IF k = "selectSubject"
       THEN /\ subjectMask' = img
            /\ UNCHANGED generatedImage
       ELSE /\ generatedImage' = img
            /\ subjectMask' = IF k = "removeBackground" THEN Null ELSE subjectMask
    /\ UNCHANGED <<originalImage, pendingFile, activeTool, editVars, histVars,
                   timerVars, pointerVars, cropRect, currentText, textPosition,
                   shapeType, selectedElement, clock>>
    /\ UNCHANGED <<foregroundImage, prompt, error, pendingForeground, outerVars>>

\* editOrCreateImage resolved with the image `img`: the try and finally
\* blocks, then the caller's continuation
CallResolves(k, img) ==
    /\ ~crashed
    /\ calls[k] > 0
    /\ calls' = [calls EXCEPT ![k] = @ - 1]
    /\ isLoading' = FALSE
    /\ IF k = "selectSubject"
       THEN /\ subjectMask' = img
            /\ UNCHANGED <<generatedImage, removeMask>>
       ELSE /\ generatedImage' = img
            /\ AfterSubmit(k)
    /\ UNCHANGED <<originalImage, pendingFile, activeTool, editVars, histVars,
                   timerVars, pointerVars, cropRect, currentText, textPosition,
                   shapeType, selectedElement, clock>>
    /\ UNCHANGED <<foregroundImage, prompt, error, pendingForeground, outerVars>>

\* (variant: a catch block that swallows the failure)
CatchErrorSwallowed(k) == Null

\* what the catch block of the action `k` passes to setError
CatchError(k) ==
    IF k = "selectSubject"
    THEN ErrorMessage("Failed to select subject.")
    ELSE ErrorMessage("Failed to generate image")

\* editOrCreateImage rejected: the catch and finally blocks, then the
\* caller's continuation
CallRejects(k) ==
    /\ ~crashed
    /\ calls[k] > 0
    /\ calls' = [calls EXCEPT ![k] = @ - 1]
    /\ isLoading' = FALSE
    /\ error' = CatchError(k)
    /\ IF k = "selectSubject"
       THEN UNCHANGED <<subjectMask, removeMask>>
       ELSE AfterSubmit(k)
    /\ UNCHANGED <<originalImage, pendingFile, activeTool, editVars, histVars,
                   timerVars, pointerVars, cropRect, currentText, textPosition,
                   shapeType, selectedElement, clock>>
    /\ UNCHANGED <<foregroundImage, generatedImage, prompt, pendingForeground,
                   outerVars>>

\* Accept, rendered while a candidate is shown
handleAcceptGeneratedImage ==
    /\ ~crashed
    /\ ~isLoading
    /\ IF generatedImage = Null
       THEN UNCHANGED <<originalImage, activeTool, editVars, histVars, toolVars,
                        maskVars, generatedImage>>
       ELSE /\ originalImage' = generatedImage
            /\ generatedImage' = Null
            /\ resetEdits
            /\ UNCHANGED shapeType
    /\ UNCHANGED <<pendingFile, timerVars, pointerVars, clock>>
    /\ UNCHANGED <<prompt, isLoading, error, calls, pendingForeground, outerVars>>

\* (variant: discarding also drops the subject mask)
DiscardWithMask ==
    /\ ~crashed
    /\ ~isLoading /\ generatedImage # Null
    /\ generatedImage' = Null
    /\ subjectMask' = Null
    /\ EditorUnchanged
    /\ UNCHANGED <<foregroundImage, prompt, isLoading, error, calls,
                   pendingForeground, outerVars>>

\* Discard, rendered while a candidate is shown
Discard ==
    /\ ~crashed
    /\ ~isLoading /\ generatedImage # Null
    /\ generatedImage' = Null
    /\ EditorUnchanged
    /\ UNCHANGED <<maskVars, prompt, isLoading, error, calls, pendingForeground,
                   outerVars>>

\* -------------------------------------------------------- TextPlayground
\* the frame of a TextPlayground handler: all of ImageStudio
StudioUnchanged ==
    /\ EditorUnchanged
    /\ UNCHANGED <<maskVars, aiVars, request, canvas, crashed, elapsed, obs>>
    /\ UNCHANGED <<exportVars, paintVars>>

playSetPrompt(p) ==
    /\ ~crashed
    /\ playPrompt' = p
    /\ UNCHANGED <<playResult, playIsLoading, playError, stream>>
    /\ StudioUnchanged

\* TextPlayground.handleSubmit up to its await, from the Enter key (not while
\* loading) or the Generate button (disabled while loading and while the
\* prompt is empty); `stream.delivered` logs the fragments of the call.
playHandleSubmit ==
    /\ ~crashed
    /\ ~playIsLoading
    /\ IF playPrompt = ""
       THEN /\ playError' = ErrorMessage("Please enter a prompt.")
            /\ UNCHANGED <<playResult, playIsLoading, stream>>
       ELSE /\ playIsLoading' = TRUE
            /\ playError' = Null
            /\ playResult' = <<>>
            /\ stream' = [delivered |-> <<>>, status |-> "open"]
    /\ UNCHANGED playPrompt
    /\ StudioUnchanged

StreamOpen == stream # Null /\ stream.status = "open"

\* (variant: the updater shows the fragment alone)
AppendChunkAlone(prev, chunk) == chunk

\* setResult((prev) => prev + chunk)
AppendChunk(prev, chunk) == prev \o chunk

\* generateTextStream delivers a fragment: onChunk(chunk.text)
StreamChunk(chunk) ==
    /\ ~crashed
    /\ StreamOpen
    /\ Len(stream.delivered) < MaxChunks
    /\ playResult' = AppendChunk(playResult, chunk)
    /\ stream' = [stream EXCEPT !.delivered = Append(@, chunk)]
    /\ UNCHANGED <<playPrompt, playIsLoading, playError>>
    /\ StudioUnchanged

\* the stream ends: the finally block
StreamEnds ==
    /\ ~crashed
    /\ StreamOpen
    /\ playIsLoading' = FALSE
    /\ stream' = [stream EXCEPT !.status = "done"]
    /\ UNCHANGED <<playPrompt, playResult, playError>>
    /\ StudioUnchanged

\* the stream fails: the catch and finally blocks
StreamFails ==
    /\ ~crashed
    /\ StreamOpen
    /\ playError' = ErrorMessage("Failed to generate text")
    /\ playIsLoading' = FALSE
    /\ stream' = [stream EXCEPT !.status = "failed"]
    /\ UNCHANGED <<playPrompt, playResult>>
    /\ StudioUnchanged

\* ------------------------------------------------------- geminiService
\* An image is a data URL "data:<mime>;base64,<data>"; image.split(',')[1]
\* is its data and getMimeType(image) its mime type.
ImagePart(image) == [inlineData |-> [data |-> image.data, mimeType |-> image.mime]]
TextPart(promptText) == [text |-> promptText]

\* the loop over base64Images: null entries are skipped
RECURSIVE ImageParts(_)
ImageParts(images) ==
    IF images = <<>> THEN <<>>
    ELSE IF Head(images) # Null
         THEN <<ImagePart(Head(images))>> \o ImageParts(Tail(images))
         ELSE ImageParts(Tail(images))

HasInlineData(part) == "inlineData" \in DOMAIN part
HasText(part) == "text" \in DOMAIN part /\ part.text # ""

\* parts.find(p => p.text): the index of the first match, 0 when none
FindTextPart(parts) ==
    IF \E i \in DOMAIN parts : HasText(parts[i])
    THEN CHOOSE i \in DOMAIN parts :
            HasText(parts[i]) /\ \A j \in 1..(i - 1) : ~HasText(parts[j])
    ELSE 0

RECURSIVE WithoutText(_)
WithoutText(parts) ==
    IF parts = <<>> THEN <<>>
    ELSE IF HasText(Head(parts)) THEN WithoutText(Tail(parts))
         ELSE <<Head(parts)>> \o WithoutText(Tail(parts))

\* (variant: the text part is pushed before the images)
RequestPartsTextFirst(promptText, base64Images) ==
    <<TextPart(promptText)>> \o ImageParts(base64Images)

\* the parts editOrCreateImage sends
RequestParts(promptText, base64Images) ==
    LET parts == ImageParts(base64Images) \o <<TextPart(promptText)>>
        textPart == FindTextPart(parts)
    IN  IF Len(parts) > 1 /\ HasInlineData(parts[Len(parts)]) /\ textPart # 0
        THEN WithoutText(parts) \o <<parts[textPart]>>
        ELSE parts

\* editOrCreateImage up to its await
BuildRequest ==
    /\ request # Null
    /\ ~request.built
    /\ request' = [request EXCEPT
                      !.parts = RequestParts(request.prompt, request.images),
                      !.built = TRUE]
    /\ EditorUnchanged
    /\ UNCHANGED <<maskVars, aiVars, playVars, canvas, crashed, elapsed, obs>>
    /\ UNCHANGED <<exportVars, paintVars>>

\* The debounce window: a pending timer fires after 400 ms, which leaves room
\* for at most MaxElapsed other events.
WindowOpen == timers = {} \/ elapsed < MaxElapsed
Elapse == elapsed' = IF timers' = {} THEN 0 ELSE elapsed + 1

\* ---------------------------------------------------------------- observer
Last(s) == s[Len(s)]

Invalid(o) == [o EXCEPT !.valid = FALSE, !.log = <<>>, !.undos = 0]

\* The event was a call of recordHistory (history is replaced on every call).
Committed == history' # history \/ historyIndex' # historyIndex

\* valid: since the last session reset (made with no debounced commit
\* pending) the run has been commits, each completed before the next edit
\* began, followed by undos and nothing else.
ObsSequence(kind, o) ==
    IF kind = "reset"
    THEN IF timers = {}
         THEN [o EXCEPT !.valid = TRUE, !.log = <<INITIAL_EDIT_STATE>>, !.undos = 0]
         ELSE Invalid(o)
    ELSE IF ~o.valid THEN o
    ELSE IF kind = "undo"
         THEN IF o.undos + 1 < Len(o.log) /\ timers = {} /\ ~isDrawing
              THEN [o EXCEPT !.undos = @ + 1] ELSE Invalid(o)
    ELSE IF kind = "redo" THEN Invalid(o)
    ELSE IF kind = "fire"
         THEN IF o.undos = 0 /\ ~isDrawing
              THEN [o EXCEPT !.log = Append(@, Last(history'))] ELSE Invalid(o)
    ELSE IF Committed
         THEN IF o.undos = 0 /\ timers = {}
              THEN [o EXCEPT !.log = Append(@, Last(history'))] ELSE Invalid(o)
    ELSE IF o.undos > 0 /\ (kind = "change" \/ editVars' # editVars) THEN Invalid(o)
    ELSE o

ObsBurst(kind, in, o) ==
    IF kind = "change"
    THEN [o EXCEPT !.burst = Min(@ + 1, 2), !.arg = NewAdjustments(in), !.fired = 0]
    ELSE IF kind = "fire" THEN [o EXCEPT !.fired = o.burst, !.burst = 0]
    ELSE [o EXCEPT !.burst = 0, !.arg = Null, !.fired = 0]

ObsOverlap(kind, o) ==
    IF kind \notin {"fire", "undo", "redo", "reset"} /\ Committed /\ timers # {}
    THEN [o EXCEPT !.overlap = Last(history')]
    ELSE [o EXCEPT !.overlap = Null]

\* lefts: rotate-left clicks in a row since the angle was 0
ObsTurns(kind, o) ==
    IF kind = "left"
    THEN [o EXCEPT !.lefts = IF transforms.rotate = 0 THEN 1
                             ELSE IF @ \in 1..3 THEN @ + 1 ELSE 0]
    ELSE [o EXCEPT !.lefts = 0]

\* draw: a draw interaction (pointer-down with the draw tool, moves, release)
\* that began in a committed state with a committed adjustment change, and
\* the undo that followed its commit.
ObsDraw(kind, o) ==
    IF kind = "down"
    THEN IF /\ activeTool = "draw" /\ timers = {} /\ ~isDrawing
            /\ historyIndex \in 0..(Len(history) - 1)
            /\ Edit = history[historyIndex + 1]
            /\ adjustments # INITIAL_ADJUSTMENTS
         THEN [o EXCEPT !.draw = [stage |-> "open", paths |-> paths,
                                  adjustments |-> adjustments, points |-> 0]]
         ELSE [o EXCEPT !.draw = Null]
    ELSE IF o.draw = Null THEN o
    ELSE IF kind = "move" /\ o.draw.stage = "open" THEN o
    ELSE IF kind = "up" /\ o.draw.stage = "open"
         THEN [o EXCEPT !.draw.stage = "done",
                        !.draw.points = Len(Last(paths').points)]
    ELSE IF kind = "undo" /\ o.draw.stage = "done"
         THEN [o EXCEPT !.draw.stage = "undone"]
    ELSE [o EXCEPT !.draw = Null]

\* stale: the selectSubject calls in flight that were started before the
\* latest session reset.  Of two calls in flight, the one started last is
\* taken to settle first.
ObsStale(kind, o) ==
    [o EXCEPT !.stale = IF kind = "reset" THEN calls'["selectSubject"]
                        ELSE Min(@, calls'["selectSubject"])]

\* before: the session as it was when the file being read was selected
\* (kept only for the resets that pass it).
ObsBefore(kind, in, o) ==
    [o EXCEPT !.before = IF kind = "reset" THEN in ELSE @]

Observe(kind, in) ==
    obs' = ObsBefore(kind, in, ObsStale(kind, ObsDraw(kind, ObsTurns(kind,
                ObsOverlap(kind, ObsBurst(kind, in, ObsSequence(kind, obs)))))))

\* ------------------------------------------------------------------ events
\* A handler with the re-render that follows it; `cap` bounds the history.
Event(handler, kind, cap) ==
    /\ WindowOpen /\ handler /\ RenderEffect(FALSE) /\ Elapse
    /\ Len(history') <= cap
    /\ Observe(kind, Null)

Change(in) ==
    /\ WindowOpen /\ SliderChange(in) /\ RenderEffect(FALSE)
    /\ elapsed' = 0
    /\ Observe("change", in)

Fire(t, cap) ==
    /\ TimerFire(t) /\ RenderEffect(FALSE)
    /\ Len(history') <= cap
    /\ elapsed' = IF timers' = {} THEN 0 ELSE elapsed
    /\ Observe("fire", Null)

Move(c) ==
    /\ WindowOpen /\ handleMouseMove(c) /\ RenderEffect(MoveThrows) /\ Elapse
    /\ Observe("move", Null)

\* ---------------------------------------------------------- specifications
\* Spec: the history manager under slider bursts, rotations, undo, redo and
\* session resets.
ToolInputs == {"adjust", "transform"}

Next ==
    \/ \E f \in ImageInputs : Event(handleFileChange(f), "reset", MaxHist)
    \/ Event(FileRead, "reset", MaxHist)
    \/ Event(handleFullReset, "reset", MaxHist)
    \/ Event(handleUndo, "undo", MaxHist)
    \/ Event(handleRedo, "redo", MaxHist)
    \/ Event(RotateLeft, "left", MaxHist)
    \/ Event(RotateRight, "right", MaxHist)
    \/ \E t \in ToolInputs : Event(ToolbarClick(t), "tool", MaxHist)
    \/ \E in \in AdjustInputs : Change(in)
    \/ \E t \in timers : Fire(t, MaxHist)

Spec == Init /\ [][Next]_vars

\* SpecTurns: rotations only, with room for four of them in a row.
NextTurns ==
    \/ \E f \in ImageInputs : Event(handleFileChange(f), "reset", MaxTurns)
    \/ Event(FileRead, "reset", MaxTurns)
    \/ Event(handleUndo, "undo", MaxTurns)
    \/ Event(handleRedo, "redo", MaxTurns)
    \/ Event(RotateLeft, "left", MaxTurns)
    \/ Event(RotateRight, "right", MaxTurns)
    \/ Event(ToolbarClick("transform"), "tool", MaxTurns)

SpecTurns == Init /\ [][NextTurns]_vars

\* SpecDraw: freehand strokes next to slider changes and undo.
DrawToolInputs == {"adjust", "draw"}
DrawAdjustInputs == {[key |-> "brightness", value |-> 150]}

NextDraw ==
    \/ \E f \in ImageInputs : Event(handleFileChange(f), "reset", MaxDrawHist)
    \/ Event(FileRead, "reset", MaxDrawHist)
    \/ Event(handleUndo, "undo", MaxDrawHist)
    \/ \E t \in DrawToolInputs : Event(ToolbarClick(t), "tool", MaxDrawHist)
    \/ \E in \in DrawAdjustInputs : Change(in)
    \/ \E t \in timers : Fire(t, MaxDrawHist)
    \/ \E c \in DrawPointInputs : Event(handleMouseDown(c), "down", MaxDrawHist)
    \/ \E c \in DrawPointInputs : Move(c)
    \/ Event(handleMouseUpOrLeave, "up", MaxDrawHist)

SpecDraw == Init /\ [][NextDraw]_vars

\* SpecCrop: the crop tool, with rectangles of whole and of fractional size.
NextCrop ==
    \/ \E f \in CropImageInputs : Event(handleFileChange(f), "reset", MaxHist)
    \/ Event(FileRead, "reset", MaxHist)
    \/ Event(ToolbarClick("crop"), "tool", MaxHist)
    \/ \E c \in CropPointInputs : Event(handleMouseDown(c), "down", MaxHist)
    \/ \E c \in CropPointInputs : Move(c)
    \/ Event(handleMouseUpOrLeave, "up", MaxHist)
    \/ Event(handleApplyCrop, "crop", MaxHist)
    \/ Event(CropCancel, "cancel", MaxHist)

SpecCrop == Init /\ [][NextCrop]_vars

\* SpecSelect: shapes of the three types, then pointer-downs of the select
\* tool.  The pointer moves only while a shape is being drawn, and it
\* moves to the origin, so that shapes are drawn right to left.
SelectToolInputs == {"shape", "select"}
ShapeTypeInputs == {"rectangle", "circle", "line"}
SelectPointInputs == {[x |-> 1, y |-> 1], [x |-> 3, y |-> 3]}
SelectMoveInputs == {[x |-> 0, y |-> 0]}

NextSelect ==
    \/ \E f \in CropImageInputs : Event(handleFileChange(f), "reset", MaxHist)
    \/ Event(FileRead, "reset", MaxHist)
    \/ \E t \in SelectToolInputs : Event(ToolbarClick(t), "tool", MaxHist)
    \/ \E t \in ShapeTypeInputs : Event(setShapeType(t), "type", MaxHist)
    \/ \E c \in SelectPointInputs : Event(handleMouseDown(c), "down", MaxHist)
    \/ \E c \in SelectMoveInputs : activeTool = "shape" /\ Move(c)
    \/ Event(handleMouseUpOrLeave, "up", MaxHist)

SpecSelect == Init /\ [][NextSelect]_vars

\* SpecAI: the AI actions and their calls in flight (at most MaxCalls at a
\* time).  The removal mask is made of clicks here; SpecMask paints it.
AiToolInputs == {"harmonize", "remove"}
PromptInputs == {"", "p"}
ResultInputs == {[w |-> 1, h |-> 1]}

InFlight ==
    calls["submit"] + calls["upscale"] + calls["harmonize"]
        + calls["removeMasked"] + calls["removeBackground"] + calls["selectSubject"]

AiEvent(handler, kind) ==
    /\ Event(handler, kind, MaxHist)
    /\ InFlight' <= MaxCalls

NextAI ==
    \/ \E f \in ImageInputs : AiEvent(handleFileChange(f), "reset")
    \/ AiEvent(FileRead, "reset")
    \/ \E t \in AiToolInputs : AiEvent(ToolbarClick(t), "tool")
    \/ \E f \in ResultInputs : AiEvent(handleForegroundChange(f), "file")
    \/ AiEvent(ForegroundRead, "file")
    \/ \E p \in PromptInputs : AiEvent(setPrompt(p), "prompt")
    \/ AiEvent(SubmitClick, "submit")
    \/ AiEvent(handleUpscale, "upscale")
    \/ AiEvent(handleSelectSubject, "selectSubject")
    \/ AiEvent(handleHarmonize, "harmonize")
    \/ AiEvent(handleApplyRemove, "removeMasked")
    \/ AiEvent(handleRemoveBackground, "removeBackground")
    \/ \E c \in DrawPointInputs : AiEvent(handleMouseDown(c), "down")
    \/ \E k \in Actions, img \in ResultInputs : AiEvent(CallResolves(k, img), "resolve")
    \/ \E k \in Actions : AiEvent(CallRejects(k), "reject")

SpecAI == Init /\ [][NextAI]_vars

\* SpecMask: the remove tool, painting the mask and applying it.
NextMask ==
    \/ \E f \in ImageInputs : AiEvent(handleFileChange(f), "reset")
    \/ AiEvent(FileRead, "reset")
    \/ AiEvent(ToolbarClick("remove"), "tool")
    \/ \E c \in DrawPointInputs : AiEvent(handleMouseDown(c), "down")
    \/ \E c \in DrawPointInputs : Move(c)
    \/ AiEvent(handleMouseUpOrLeave, "up")
    \/ AiEvent(handleApplyRemove, "removeMasked")
    \/ \E img \in ResultInputs : AiEvent(CallResolves("removeMasked", img), "resolve")
    \/ AiEvent(CallRejects("removeMasked"), "reject")
    \/ AiEvent(Discard, "discard")

SpecMask == Init /\ [][NextMask]_vars

\* SpecFail: calls of every action, resolving or failing one at a time, in a
\* session with committed flips.
FailToolInputs == {"transform", "harmonize", "remove"}
FailPromptInputs == {"p"}

FailEvent(handler, kind) ==
    /\ Event(handler, kind, MaxHist)
    /\ InFlight' <= MaxFailCalls

NextFail ==
    \/ \E f \in ImageInputs : FailEvent(handleFileChange(f), "reset")
    \/ FailEvent(FileRead, "reset")
    \/ \E t \in FailToolInputs : FailEvent(ToolbarClick(t), "tool")
    \/ FailEvent(FlipHorizontal, "flip")
    \/ FailEvent(handleUndo, "undo")
    \/ \E f \in ResultInputs : FailEvent(handleForegroundChange(f), "file")
    \/ FailEvent(ForegroundRead, "file")
    \/ \E p \in FailPromptInputs : FailEvent(setPrompt(p), "prompt")
    \/ FailEvent(SubmitClick, "submit")
    \/ FailEvent(handleUpscale, "upscale")
    \/ FailEvent(handleSelectSubject, "selectSubject")
    \/ FailEvent(handleHarmonize, "harmonize")
    \/ FailEvent(handleApplyRemove, "removeMasked")
    \/ FailEvent(handleRemoveBackground, "removeBackground")
    \/ \E c \in DrawPointInputs : FailEvent(handleMouseDown(c), "down")
    \/ \E k \in Actions, img \in ResultInputs : FailEvent(CallResolves(k, img), "resolve")
    \/ \E k \in Actions : FailEvent(CallRejects(k), "reject")

SpecFail == Init /\ [][NextFail]_vars

\* SpecPrompt: the prompt of ImageStudio and the TextPlayground with its text
\* stream.
ChunkInputs == {<<>>, <<"a">>, <<"b", "c">>}

NextPrompt ==
    \/ \E p \in PromptInputs : AiEvent(setPrompt(p), "prompt")
    \/ AiEvent(SubmitClick, "submit")
    \/ AiEvent(SubmitEmpty, "submit")
    \/ \E img \in ResultInputs : AiEvent(CallResolves("submit", img), "resolve")
    \/ AiEvent(CallRejects("submit"), "reject")
    \/ AiEvent(Discard, "discard")
    \/ \E p \in PromptInputs : playSetPrompt(p)
    \/ playHandleSubmit
    \/ \E chunk \in ChunkInputs : StreamChunk(chunk)
    \/ StreamEnds
    \/ StreamFails

SpecPrompt == Init /\ [][NextPrompt]_vars

\* SpecAccept: candidate images and subject masks in a session with committed
\* flips and a clicked removal mask; the candidate is accepted or discarded.
AcceptToolInputs == {"transform", "remove"}
AcceptActions == {"upscale", "selectSubject"}

NextAccept ==
    \/ \E f \in ImageInputs : FailEvent(handleFileChange(f), "reset")
    \/ FailEvent(FileRead, "reset")
    \/ \E t \in AcceptToolInputs : FailEvent(ToolbarClick(t), "tool")
    \/ FailEvent(FlipHorizontal, "flip")
    \/ \E c \in DrawPointInputs : FailEvent(handleMouseDown(c), "down")
    \/ FailEvent(handleUpscale, "upscale")
    \/ FailEvent(handleSelectSubject, "selectSubject")
    \/ \E k \in AcceptActions, img \in ResultInputs :
            FailEvent(CallResolves(k, img), "resolve")
    \/ \E k \in AcceptActions : FailEvent(CallRejects(k), "reject")
    \/ FailEvent(handleAcceptGeneratedImage, "reset")
    \/ FailEvent(Discard, "discard")

SpecAccept == Init /\ [][NextAccept]_vars

\* SpecText: the text tool (pending position, text buffer, Add Text), the
\* select tool on the texts it made, and undo.
TextToolInputs == {"text", "select"}

NextText ==
    \/ \E f \in CropImageInputs : Event(handleFileChange(f), "reset", MaxHist)
    \/ Event(FileRead, "reset", MaxHist)
    \/ \E t \in TextToolInputs : Event(ToolbarClick(t), "tool", MaxHist)
    \/ \E s \in TextInputs : Event(setCurrentText(s), "type", MaxHist)
    \/ \E c \in SelectPointInputs : Event(handleMouseDown(c), "down", MaxHist)
    \/ Event(handleMouseUpOrLeave, "up", MaxHist)
    \/ Event(handleAddText, "add", MaxHist)
    \/ Event(handleUndo, "undo", MaxHist)

SpecText == Init /\ [][NextText]_vars

\* SpecTool: tool changes around a crop rectangle and a pending text
\* position, with a rotation (and its undo) that changes the canvas extent
\* under a rectangle drawn before it.
WideImageInputs == {[w |-> 3, h |-> 2]}
ToolChangeInputs == {"crop", "transform", "text"}
ToolPointInputs == {[x |-> 3, y |-> 0], [x |-> 5, y |-> 2]}

NextTool ==
    \/ \E f \in WideImageInputs : Event(handleFileChange(f), "reset", MaxHist)
    \/ Event(FileRead, "reset", MaxHist)
    \/ \E t \in ToolChangeInputs : Event(ToolbarClick(t), "tool", MaxHist)
    \/ \E c \in ToolPointInputs : Event(handleMouseDown(c), "down", MaxHist)
    \/ \E c \in ToolPointInputs : Move(c)
    \/ Event(handleMouseUpOrLeave, "up", MaxHist)
    \/ Event(RotateRight, "right", MaxHist)
    \/ Event(handleUndo, "undo", MaxHist)
    \/ Event(handleApplyCrop, "reset", MaxHist)
    \/ Event(CropCancel, "cancel", MaxHist)

SpecTool == Init /\ [][NextTool]_vars

\* SpecPointer: pointer interactions of the draw and shape tools, each
\* closed by one or more up/leave events, with undo between them.
PointerToolInputs == {"draw", "shape"}
PointerMoveInputs == {[x |-> 0, y |-> 0]}

NextPointer ==
    \/ \E f \in ImageInputs : Event(handleFileChange(f), "reset", MaxHist)
    \/ Event(FileRead, "reset", MaxHist)
    \/ \E t \in PointerToolInputs : Event(ToolbarClick(t), "tool", MaxHist)
    \/ \E c \in DrawPointInputs : Event(handleMouseDown(c), "down", MaxHist)
    \/ \E c \in PointerMoveInputs : Move(c)
    \/ Event(handleMouseUpOrLeave, "up", MaxHist)
    \/ Event(handleUndo, "undo", MaxHist)

SpecPointer == Init /\ [][NextPointer]_vars

\* SpecExtent: rotations and flips of a source image that is not square,
\* with undo.
NextExtent ==
    \/ \E f \in ImageInputs \cup WideImageInputs :
            Event(handleFileChange(f), "reset", MaxTurns)
    \/ Event(FileRead, "reset", MaxTurns)
    \/ Event(ToolbarClick("transform"), "tool", MaxTurns)
    \/ Event(RotateLeft, "left", MaxTurns)
    \/ Event(RotateRight, "right", MaxTurns)
    \/ Event(FlipHorizontal, "flip", MaxTurns)
    \/ Event(FlipVertical, "flip", MaxTurns)
    \/ Event(handleUndo, "undo", MaxTurns)

SpecExtent == Init /\ [][NextExtent]_vars

\* SpecUpload: main image files whose decoding succeeds or fails, in a
\* session with committed rotations and flips.
Session == <<originalImage, editVars, history, historyIndex>>

Select(f) ==
    /\ WindowOpen /\ handleFileChange(f) /\ RenderEffect(FALSE) /\ Elapse
    /\ Len(history') <= MaxHist
    /\ Observe("reset", Session)

NextUpload ==
    \/ \E f \in ImageInputs \cup WideImageInputs : Select(f)
    \/ Event(FileRead, "reset", MaxHist)
    \/ Event(FileReadFails, "fail", MaxHist)
    \/ Event(ToolbarClick("transform"), "tool", MaxHist)
    \/ Event(RotateRight, "right", MaxHist)
    \/ Event(FlipHorizontal, "flip", MaxHist)
    \/ Event(handleUndo, "undo", MaxHist)

SpecUpload == Init /\ [][NextUpload]_vars

\* A handler with the body of the render effect that follows it, the image
\* and mask loads left pending (at most MaxLoads of them).
Paint(handler, kind) ==
    /\ WindowOpen /\ handler /\ RenderEffectBody(FALSE) /\ Elapse
    /\ Len(history') <= MaxHist
    /\ Len(loads') <= MaxLoads
    /\ InFlight' <= MaxFailCalls
    /\ Observe(kind, Null)

PaintMove(c) ==
    /\ WindowOpen /\ handleMouseMove(c) /\ RenderEffectBody(MoveThrows) /\ Elapse
    /\ Len(loads') <= MaxLoads
    /\ Observe("move", Null)

\* SpecRender: the render effect with its image and mask loads completing
\* at any later time, under the remove and crop tools, Select Subject and
\* the export dialog.  A run ends with its download.
RenderToolInputs == {"remove", "crop"}
RenderMoveInputs == {[x |-> 0, y |-> 0]}

NextRender ==
    /\ exported = Null
    /\ \/ \E f \in ImageInputs : Paint(handleFileChange(f), "reset")
       \/ Paint(FileRead, "reset")
       \/ \E i \in 1..MaxLoads : ImageOnload(i)
       \/ \E i \in 1..MaxLoads : MaskOnload(i)
       \/ \E t \in RenderToolInputs : Paint(ToolbarClick(t), "tool")
       \/ \E c \in DrawPointInputs : Paint(handleMouseDown(c), "down")
       \/ \E c \in RenderMoveInputs : PaintMove(c)
       \/ Paint(handleMouseUpOrLeave, "up")
       \/ Paint(handleSelectSubject, "selectSubject")
       \/ \E img \in ResultInputs : Paint(CallResolves("selectSubject", img), "resolve")
       \/ Paint(onExportClick, "export")
       \/ Paint(handleDownload, "download")

SpecRender == Init /\ [][NextRender]_vars

\* SpecHit: texts and shapes laid over each other, then pointer-downs of the
\* select tool on them.  The pointer moves only while a shape is drawn, and
\* elements are placed at two of the three points.
HitToolInputs == {"text", "shape", "select"}
HitTextInputs == {<<"h", "i">>}
HitPointInputs == {[x |-> 0, y |-> 0], [x |-> 1, y |-> 1], [x |-> 3, y |-> 3]}

NextHit ==
    \/ \E f \in CropImageInputs : Event(handleFileChange(f), "reset", MaxHist)
    \/ Event(FileRead, "reset", MaxHist)
    \/ \E t \in HitToolInputs : Event(ToolbarClick(t), "tool", MaxHist)
    \/ \E s \in HitTextInputs : Event(setCurrentText(s), "type", MaxHist)
    \/ Event(handleAddText, "add", MaxHist)
    \/ \E c \in HitPointInputs :
            /\ activeTool = "select" \/ c \in SelectPointInputs
            /\ Event(handleMouseDown(c), "down", MaxHist)
    \/ \E c \in SelectMoveInputs : activeTool = "shape" /\ Move(c)
    \/ Event(handleMouseUpOrLeave, "up", MaxHist)

SpecHit == Init /\ [][NextHit]_vars

\* SpecParts: editOrCreateImage on every prompt and every list of up to
\* MaxImages optional images.
ServicePromptInputs == {"", "p"}
ServiceImageInputs ==
    {Null, [mime |-> "image/png", data |-> "A"], [mime |-> "image/jpeg", data |-> "B"]}

ImageLists == UNION {[1..n -> ServiceImageInputs] : n \in 0..MaxImages}

InitParts ==
    /\ InitStudio
    /\ request \in {[prompt |-> p, images |-> im, parts |-> <<>>, built |-> FALSE] :
                        p \in ServicePromptInputs, im \in ImageLists}

NextParts == BuildRequest

SpecParts == InitParts /\ [][NextParts]_vars

\* ------------------------------------------------------------------ claims

C2_RedoAdvances ==
    [][handleRedo =>
         IF historyIndex < Len(history) - 1
         THEN historyIndex' = historyIndex + 1
         ELSE UNCHANGED <<historyIndex, history, editVars>>]_vars

\* C3: with a non-empty history, 0 <= historyIndex <= history.length - 1.
C3_IndexInRange ==
    history # <<>> => (0 <= historyIndex /\ historyIndex <= Len(history) - 1)

\* C4: a commit made from the current render at historyIndex = i keeps
\* entries 0..i, drops every entry after i, appends the snapshot and leaves
\* historyIndex = i + 1 = history.length - 1, so that redo is then a no-op.
C4_CommitTruncates ==
    [][(RotateLeft \/ RotateRight) =>
         /\ Len(history') = historyIndex + 2
         /\ \A k \in 1..(historyIndex + 1) :
                k \in DOMAIN history /\ history'[k] = history[k]
         /\ historyIndex' = historyIndex + 1
         /\ historyIndex' = Len(history') - 1
         /\ Last(history').transforms = transforms']_vars

\* C5: a burst of K >= 1 slider events with nothing in between, followed by
\* the timer firing, appends exactly one entry to the entries kept from the
\* history (no second timer is left to append another), and the entry's
\* adjustments are the argument of the Kth call.
C5_BurstCommitsOnce ==
    [][\A t \in timers :
         (Fire(t, MaxHist) /\ obs.burst >= 1) =>
            /\ history' = Append(SubSeq(history, 1, Len(history') - 1), Last(history'))
            /\ Last(history').adjustments = obs.arg
            /\ timers' = {}]_vars

\* a burst of two or more slider events has fired as one entry, whose
\* adjustments differ from those of the entry before it
C5_Witness ==
    /\ obs.fired = 2
    /\ Len(history) >= 2
    /\ Last(history).adjustments # history[Len(history) - 1].adjustments

\* C6: a snapshot committed immediately while a debounced commit was pending
\* is still in the history after the timer fired.
C6_FireKeepsImmediateCommit ==
    [][\A t \in timers :
         (Fire(t, MaxHist) /\ obs.overlap # Null) => obs.overlap \in Range(history')]_vars

HistoryEvent ==
    \/ handleUndo
    \/ handleRedo
    \/ handleMouseUpOrLeave
    \/ handleAddText
    \/ handleApplyCrop
    \/ RotateLeft \/ RotateRight \/ FlipHorizontal \/ FlipVertical
    \/ handleFullReset
    \/ FileRead
    \/ \E f \in ImageInputs : handleFileChange(f)
    \/ \E t \in timers : TimerFire(t)

C8_CropYieldsRectSize ==
    [][(handleApplyCrop /\ cropRect.width > 0 /\ cropRect.height > 0) =>
         /\ originalImage' # Null
         /\ originalImage'.w * CoordScale = cropRect.width
         /\ originalImage'.h * CoordScale = cropRect.height
         /\ Edit' = INITIAL_EDIT_STATE
         /\ history' = <<INITIAL_EDIT_STATE>>
         /\ historyIndex' = 0]_vars

\* the multiples of 90 degrees below 360
Angles == {0, 90, 180, 270}

\* C9: the rotation angle is one of 0, 90, 180, 270 in the working state and
\* in every snapshot, and four rotate-left clicks in a row from 0 end at 0.
C9_RotationNormalized ==
    /\ transforms.rotate \in Angles
    /\ \A k \in DOMAIN history : history[k].transforms.rotate \in Angles
    /\ obs.lefts = 4 => transforms.rotate = 0
    /\ obs.lefts \in 1..3 => transforms.rotate = 360 - 90 * obs.lefts

\* four rotate-left clicks in a row from 0, the first of which gave 270
C9_Witness == obs.lefts = 4 /\ Len(history) = 5 /\ history[2].transforms.rotate = 270

\* C10: once an adjustment change is committed and a later draw interaction
\* is committed as an entry of its own, one undo leaves the paths as they
\* were before the draw and the adjustments at their committed value.
C10_UndoRemovesOnlyStroke ==
    (obs.draw # Null /\ obs.draw.stage = "undone") =>
        /\ paths = obs.draw.paths
        /\ adjustments = obs.draw.adjustments

\* a three-point stroke drawn over an earlier stroke was committed and undone
C10_Witness ==
    /\ obs.draw # Null /\ obs.draw.stage = "undone"
    /\ obs.draw.points = 3
    /\ obs.draw.paths # <<>>
    /\ adjustments.brightness = 150


\* A point strictly inside, and strictly outside, the axis-aligned box of the
\* two control points of a shape.
StrictlyInside(s, c) ==
    /\ \/ s.x1 < c.x /\ c.x < s.x2
       \/ s.x2 < c.x /\ c.x < s.x1
    /\ \/ s.y1 < c.y /\ c.y < s.y2
       \/ s.y2 < c.y /\ c.y < s.y1

StrictlyOutside(s, c) ==
    \/ c.x < s.x1 /\ c.x < s.x2
    \/ c.x > s.x1 /\ c.x > s.x2
    \/ c.y < s.y1 /\ c.y < s.y2
    \/ c.y > s.y1 /\ c.y > s.y2

SelectDown(c) ==
    activeTool = "select" /\ Event(handleMouseDown(c), "down", MaxHist)

\* C11 (as stated): with the select tool active, a pointer-down strictly
\* inside the bounding box of a shape selects that shape, and a pointer-down
\* strictly outside the bounding box of every element selects nothing.
C11_InsideSelectsThatShape ==
    [][\A c \in SelectPointInputs : SelectDown(c) =>
        /\ \A i \in DOMAIN shapes : StrictlyInside(shapes[i], c) =>
                selectedElement' = [type |-> "shape", id |-> shapes[i].id]
        /\ ((\A i \in DOMAIN shapes : StrictlyOutside(shapes[i], c))
                /\ (\A i \in DOMAIN texts : ~TextHit(texts[i], c)))
            => selectedElement' = Null]_vars

\* C11 (amended): with the select tool active, a pointer-down strictly inside
\* the bounding box of a shape selects that shape when no text element's box
\* and no earlier shape's box holds the point (otherwise the first such
\* element is selected), and a pointer-down strictly outside the bounding box
\* of every element selects nothing; for rectangles, circles and lines.
C11_InsideSelectsFirstShape ==
    [][\A c \in SelectPointInputs : SelectDown(c) =>
        /\ \A i \in DOMAIN shapes :
                (/\ StrictlyInside(shapes[i], c)
                 /\ \A j \in 1..(i - 1) : StrictlyOutside(shapes[j], c)
                 /\ \A j \in DOMAIN texts : ~TextHit(texts[j], c))
                => selectedElement' = [type |-> "shape", id |-> shapes[i].id]
        /\ (\A i \in DOMAIN shapes :
                StrictlyInside(shapes[i], c) /\ selectedElement' # Null
                => \E j \in 1..i : /\ ~StrictlyOutside(shapes[j], c)
                                   /\ selectedElement'.id = shapes[j].id)
        /\ ((\A i \in DOMAIN shapes : StrictlyOutside(shapes[i], c))
                /\ (\A i \in DOMAIN texts : ~TextHit(texts[i], c)))
            => selectedElement' = Null]_vars

\* C11 witness: the select tool has just picked the first of two shapes whose
\* boxes both hold the point strictly inside, the second one a circle drawn
\* right to left.
C11_Witness ==
    /\ activeTool = "select" /\ isDragging /\ selectedElement # Null
    /\ Len(shapes) = 2 /\ startPoint # Null
    /\ StrictlyInside(shapes[1], startPoint)
    /\ StrictlyInside(shapes[2], startPoint)
    /\ shapes[2].type = "circle" /\ shapes[2].x2 < shapes[2].x1
    /\ shapes[1].type = "line"
    /\ selectedElement = [type |-> "shape", id |-> shapes[1].id]


\* C12: a call to the external service that fails, from whichever of the six
\* actions, leaves the source image, the edit state, history and historyIndex
\* as they were (issuing the call and its failure both do), and the failure
\* sets a user-visible error message.
C12_FailedCallKeepsSession ==
    [][\A k \in Actions :
        /\ calls'[k] > calls[k] => Session' = Session
        /\ FailEvent(CallRejects(k), "reject")
            => Session' = Session /\ error' # Null]_vars

\* C12 witness: a call made through handleSubmit has failed in a session
\* whose history holds a committed flip.
C12_Witness ==
    /\ error = ErrorMessage("Failed to generate image") /\ ~isLoading
    /\ InFlight = 0
    /\ originalImage # Null
    /\ Len(history) = 2 /\ historyIndex = 1
    /\ transforms.flip.horizontal


Offered == <<removeMask, subjectMask, generatedImage>>

\* C13: a failed call of removeMasked, removeBackground, selectSubject or
\* submit leaves the removal mask, the subject mask and the candidate image
\* as they were before the call was issued: neither issuing the call nor its
\* failure changes them.
C13_FailedCallKeepsMasks ==
    [][\A k \in {"removeMasked", "removeBackground", "selectSubject", "submit"} :
        (calls'[k] > calls[k] \/ FailEvent(CallRejects(k), "reject"))
            => Offered' = Offered]_vars


\* C14: at most one call to the external service is in flight per action
\* (upscale, selectSubject, harmonize, removeMasked, removeBackground, prompt
\* submit) at any time.
C14_OneCallPerAction == \A k \in Actions : calls[k] <= 1


\* The mask image has a white region only for paths of two points or more:
\* the others are skipped when the mask is drawn.
MaskedRegion == \E i \in DOMAIN removeMask : Len(removeMask[i].points) >= 2

\* C15: handleApplyRemove with an empty removal mask makes no call and changes
\* no state, and no removeMasked call is issued when there is no masked region.
C15_NoRemoveWithoutRegion ==
    [][/\ (Len(removeMask) = 0 /\ AiEvent(handleApplyRemove, "removeMasked"))
            => UNCHANGED <<Session, Offered, aiVars, toolVars, activeTool>>
       /\ calls'["removeMasked"] > calls["removeMasked"] => MaskedRegion]_vars


\* C16: submitting with an empty prompt (handleSubmit without an override, or
\* TextPlayground.handleSubmit) makes no call to the external service, sets an
\* error message, and leaves the busy flag, the candidate image and the
\* result text unchanged.
C16_EmptyPromptRejected ==
    [][/\ AiEvent(SubmitEmpty, "submit")
            => /\ calls' = calls /\ error' # Null
               /\ UNCHANGED <<isLoading, generatedImage>>
       /\ (playPrompt = "" /\ playHandleSubmit)
            => /\ stream' = stream /\ playError' # Null
               /\ UNCHANGED <<playIsLoading, playResult>>]_vars

\* C16 witness: both components show the empty-prompt error, next to the
\* candidate image and the result text they had before.
C16_Witness ==
    /\ prompt = "" /\ error = ErrorMessage("Please enter a prompt.")
    /\ generatedImage # Null /\ ~isLoading /\ InFlight = 0
    /\ playPrompt = "" /\ playError = ErrorMessage("Please enter a prompt.")
    /\ playResult = <<"a", "b", "c">> /\ ~playIsLoading


\* C17: accepting a candidate image makes it the source image, clears the
\* candidate and resets the session: the edit state is INITIAL_EDIT_STATE,
\* history holds the initial snapshot alone, historyIndex is 0, and the
\* removal mask and the subject mask are cleared.
C17_AcceptResetsSession ==
    [][(generatedImage # Null /\ FailEvent(handleAcceptGeneratedImage, "reset"))
        => /\ originalImage' = generatedImage
           /\ generatedImage' = Null
           /\ Edit' = INITIAL_EDIT_STATE
           /\ history' = <<INITIAL_EDIT_STATE>>
           /\ historyIndex' = 0
           /\ removeMask' = <<>>
           /\ subjectMask' = Null]_vars

\* C17 witness: a candidate is about to be accepted in a session with a
\* committed flip, a clicked removal mask and a subject mask.
C17_Witness ==
    /\ generatedImage # Null /\ ~isLoading /\ ~crashed
    /\ originalImage # Null /\ originalImage # generatedImage
    /\ transforms.flip.horizontal /\ Len(history) = 2 /\ historyIndex = 1
    /\ removeMask # <<>> /\ subjectMask # Null


\* C18: discarding a candidate image sets generatedImage to null and leaves
\* the source image, the edit state, history, historyIndex, the active tool
\* and the masks unchanged.
C18_DiscardOnlyDropsCandidate ==
    [][FailEvent(Discard, "discard")
        => /\ generatedImage' = Null
           /\ UNCHANGED <<Session, activeTool, removeMask, subjectMask>>]_vars

\* C18 witness: a candidate is offered for discarding while the remove tool
\* is active, next to a committed flip, a removal mask and a subject mask.
C18_Witness ==
    /\ generatedImage # Null /\ ~isLoading /\ ~crashed
    /\ activeTool = "remove" /\ Len(removeMask) = 2 /\ subjectMask # Null
    /\ historyIndex = 1 /\ history[2].transforms.flip.horizontal


\* the fragments of a call, one after the other in arrival order
RECURSIVE Concatenation(_)
Concatenation(fragments) ==
    IF fragments = <<>> THEN <<>>
    ELSE Head(fragments) \o Concatenation(Tail(fragments))

\* C19: for one text-stream request the displayed result is at every moment
\* the concatenation, in arrival order, of exactly the fragments delivered so
\* far, also after the stream has ended or failed.
C19_ResultIsConcatenation ==
    stream # Null => playResult = Concatenation(stream.delivered)

\* C19 witness: a stream has failed after two fragments, which stay displayed
\* in their order of arrival.
C19_Witness ==
    /\ stream # Null /\ stream.status = "failed"
    /\ stream.delivered = << <<"b", "c">>, <<"a">> >>
    /\ playResult = <<"b", "c", "a">>
    /\ playError = ErrorMessage("Failed to generate text") /\ ~playIsLoading


\* the entries of a list that are not null, in their order
NonNull(images) == SelectSeq(images, LAMBDA image : image # Null)

\* C20: for every prompt and every list of optional images, the parts built
\* by editOrCreateImage are the non-null images in their input order,
\* followed by exactly one text part, which holds the prompt and is last.
C20_ImagesThenPrompt ==
    (request # Null /\ request.built) =>
        LET images == NonNull(request.images)
            parts == request.parts
        IN  /\ Len(parts) = Len(images) + 1
            /\ \A i \in 1..Len(images) :
                    parts[i] = [inlineData |-> [data |-> images[i].data,
                                                mimeType |-> images[i].mime]]
            /\ parts[Len(parts)] = [text |-> request.prompt]

\* C20 witness: parts were built for the empty prompt and a list with a null
\* entry between two different images.
C20_Witness ==
    /\ request # Null /\ request.built
    /\ request.prompt = "" /\ Len(request.images) = 3
    /\ request.images[2] = Null
    /\ request.images[1] # Null /\ request.images[3] # Null
    /\ request.images[1] # request.images[3]
    /\ Len(request.parts) = 3



\* C30: a successful selectSubject (the click and the resolution of its call)
\* stores the returned image as the subject mask and leaves the source image,
\* the edit state, history, historyIndex, the active tool and the removal
\* mask unchanged.
C30_SelectSubjectOnlySetsMask ==
    [][/\ FailEvent(handleSelectSubject, "selectSubject")
            => UNCHANGED <<Session, activeTool, removeMask>>
       /\ \A img \in ResultInputs :
            FailEvent(CallResolves("selectSubject", img), "resolve")
                => /\ subjectMask' = img
                   /\ UNCHANGED <<Session, activeTool, removeMask>>]_vars

\* C30 witness: a subject mask was returned in a session with a committed
\* flip and a clicked removal mask, both still there.
C30_Witness ==
    /\ subjectMask # Null /\ ~isLoading /\ error = Null /\ ~crashed
    /\ calls["selectSubject"] = 0 /\ generatedImage = Null
    /\ originalImage # Null /\ activeTool = "remove"
    /\ transforms.flip.horizontal /\ Len(history) = 2 /\ historyIndex = 1
    /\ removeMask # <<>>



\* a text of blanks only
Blank(s) == \A i \in DOMAIN s : s[i] = " "

\* C27: with the text tool a pointer-down records the pending position and
\* leaves texts and history alone; handleAddText with a non-blank text and a
\* pending position appends one TextElement with that text at that position,
\* appends one history entry holding the new texts after the current entry,
\* and clears the pending position and the text buffer; with a blank text or
\* no pending position it changes nothing.
C27_AddTextAppendsOne ==
    [][/\ \A c \in SelectPointInputs :
            (activeTool = "text" /\ Event(handleMouseDown(c), "down", MaxHist))
                => /\ textPosition' = c
                   /\ UNCHANGED <<texts, history, historyIndex, currentText>>
       /\ Event(handleAddText, "add", MaxHist)
            => IF ~Blank(currentText) /\ textPosition # Null
               THEN /\ Len(texts') = Len(texts) + 1
                    /\ SubSeq(texts', 1, Len(texts)) = texts
                    /\ Last(texts').text = currentText
                    /\ Last(texts').x = textPosition.x
                    /\ Last(texts').y = textPosition.y
                    /\ Len(history') = historyIndex + 2
                    /\ SubSeq(history', 1, historyIndex + 1)
                            = SubSeq(history, 1, historyIndex + 1)
                    /\ Last(history').texts = texts'
                    /\ historyIndex' = historyIndex + 1
                    /\ textPosition' = Null
                    /\ currentText' = <<>>
               ELSE UNCHANGED <<Session, currentText, textPosition, activeTool,
                                selectedElement>>]_vars

\* C27 witness: a second text was added after an undo took the first one
\* away, at the position of the last pointer-down.
C27_Witness ==
    /\ activeTool = "text" /\ ~crashed
    /\ Len(texts) = 1 /\ texts[1].text = <<"h", "i">> /\ texts[1].x = 3
    /\ Len(history) = 2 /\ historyIndex = 1 /\ history[2].texts = texts
    /\ clock = 2
    /\ textPosition = Null /\ currentText = <<>>



\* C23: a tool change leaves the crop rectangle null and the pending text
\* position null, and leaves the edit state unchanged.
C23_ToolChangeClearsEphemeral ==
    [][\A t \in ToolChangeInputs :
        (Event(ToolbarClick(t), "tool", MaxHist) /\ activeTool' # activeTool)
            => /\ cropRect' = Null
               /\ textPosition' = Null
               /\ Edit' = Edit]_vars

\* the rectangle has no area
ZeroArea(rect) == rect.width <= 0 \/ rect.height <= 0

\* the rectangle reaches beyond the canvas
OutsideCanvas(rect) ==
    \/ rect.x + rect.width > canvas.w * CoordScale
    \/ rect.y + rect.height > canvas.h * CoordScale

\* C25: handleApplyCrop with a rectangle of no area, or with one that
\* reaches beyond the current canvas, changes neither the source image nor
\* the edit state, the history or the crop rectangle.
C25_BadCropIgnored ==
    [][(Event(handleApplyCrop, "reset", MaxHist)
            /\ (ZeroArea(cropRect) \/ OutsideCanvas(cropRect)))
        => UNCHANGED <<Session, cropRect>>]_vars



\* the element a selection names: a text or a shape of that id
Names(sel) ==
    \/ sel.type = "text" /\ \E i \in DOMAIN texts : texts[i].id = sel.id
    \/ sel.type = "shape" /\ \E i \in DOMAIN shapes : shapes[i].id = sel.id

\* C24: in every reachable state selectedElement is null or its (type, id)
\* names an element of the current texts or shapes.
C24_SelectionNeverDangles ==
    selectedElement # Null => Names(selectedElement)



\* C29: with the select tool, a release that follows a pointer-down on an
\* element with no move in between (under SpecText the pointer never moves)
\* leaves history and historyIndex unchanged.
C29_ReleaseWithoutMoveKeepsHistory ==
    [][(/\ activeTool = "select" /\ isDrawing /\ isDragging
        /\ selectedElement # Null
        /\ Event(handleMouseUpOrLeave, "up", MaxHist))
        => UNCHANGED <<history, historyIndex>>]_vars



\* C28: every up or leave event ends the interaction (isDrawing and
\* isDragging false, start point null); the first one after a pointer-down
\* with the draw or shape tool appends one history entry after the current
\* one, a further up or leave changes nothing more, and pointer-downs and
\* moves add no entry: one down..up/leave interval adds exactly one entry.
C28_ReleaseClosesInteraction ==
    [][/\ Event(handleMouseUpOrLeave, "up", MaxHist)
            => /\ ~isDrawing' /\ ~isDragging' /\ startPoint' = Null
               /\ (isDrawing /\ activeTool \in PointerToolInputs)
                    => /\ Len(history') = historyIndex + 2
                       /\ SubSeq(history', 1, historyIndex + 1)
                            = SubSeq(history, 1, historyIndex + 1)
                       /\ historyIndex' = historyIndex + 1
                       /\ Last(history').paths = paths
                       /\ Last(history').shapes = shapes
               /\ ~isDrawing => UNCHANGED <<Session, activeTool>>
       /\ \A c \in DrawPointInputs :
            Event(handleMouseDown(c), "down", MaxHist)
                => Len(history') = Len(history) /\ historyIndex' = historyIndex
       /\ \A c \in PointerMoveInputs :
            Move(c) => Len(history') = Len(history) /\ historyIndex' = historyIndex]_vars

\* C28 witness: a stroke and a shape were each released twice (up, then
\* leave) and each added one entry.
C28_Witness ==
    /\ activeTool = "shape"
    /\ ~isDrawing /\ ~isDragging /\ startPoint = Null /\ ~crashed
    /\ Len(paths) = 1 /\ Len(paths[1].points) >= 2 /\ Len(shapes) = 1
    /\ Len(history) = 3 /\ historyIndex = 2
    /\ Last(history).paths = paths /\ Last(history).shapes = shapes



\* C22: the canvas extent is a function of the source size and the rotation
\* angle alone: (w, h) at 0 and 180 degrees, (h, w) at 90 and 270, whatever
\* the flip flags.
C22_ExtentFromSizeAndAngle ==
    Mounted =>
        /\ transforms.rotate \in {0, 180}
            => canvas = [w |-> originalImage.w, h |-> originalImage.h]
        /\ transforms.rotate \in {90, 270}
            => canvas = [w |-> originalImage.h, h |-> originalImage.w]

\* C22 witness: a 3 x 2 image turned to 270 degrees and flipped both ways is
\* shown on a 2 x 3 canvas.
C22_Witness ==
    /\ Mounted /\ originalImage = [w |-> 3, h |-> 2]
    /\ transforms.rotate = 270
    /\ transforms.flip.horizontal /\ transforms.flip.vertical
    /\ canvas = [w |-> 2, h |-> 3]



\* every onload callback has run
Settled == loads = <<>> /\ imageSrc = originalImage

\* C21: once the image and mask loads have completed, the layers on the
\* canvas are those of one render of the current view (source image, edit
\* state, active tool, overlays), whatever was rendered before and whenever
\* the loads completed; so two runs that reach the same view end with the
\* same layers.
C21_SettledPictureFollowsView ==
    (Mounted /\ Settled) => layers = Picture(View)

\* C26: the picture handleDownload exports holds no removal-mask layer.
C26_ExportHasNoRemovalMask ==
    exported # Null =>
        \A i \in DOMAIN exported.picture : "removeMask" \notin DOMAIN exported.picture[i]



\* the place of a layer in the order the specification fixes
LayerRank(l) ==
    IF "image" \in DOMAIN l THEN 1
    ELSE IF "paths" \in DOMAIN l THEN 2
    ELSE IF "removeMask" \in DOMAIN l THEN 3
    ELSE IF "shapes" \in DOMAIN l THEN 4
    ELSE IF "texts" \in DOMAIN l THEN 5
    ELSE IF "subjectMask" \in DOMAIN l THEN 6
    ELSE IF "cropRect" \in DOMAIN l THEN 7
    ELSE 8

\* C31: the layers on the canvas lie in the order source image, draw paths,
\* removal-mask paths, shapes, texts, subject mask, crop overlay, selection
\* highlight: no layer lies over a layer that comes later in that order.
C31_LayersInFixedOrder ==
    \A i, j \in DOMAIN layers : i < j => LayerRank(layers[i]) <= LayerRank(layers[j])



\* C32: a pointer move and a slider change, which never call setHistory,
\* leave every entry of history as it was: no path, shape or text inside a
\* snapshot changes.
C32_SnapshotsImmutable ==
    [][/\ \A c \in DrawPointInputs : Move(c) => history' = history
       /\ \A in \in DrawAdjustInputs : Change(in) => history' = history]_vars



\* the estimated box of a text: size x 0.6 x character count wide, size high
InTextBox(t, c) ==
    /\ c.x >= t.x /\ 10 * (c.x - t.x) <= 6 * t.size * Len(t.text) * CoordScale
    /\ c.y >= t.y /\ c.y - t.y <= t.size * CoordScale

\* the bounding box of the two control points of a shape
InShapeBox(s, c) ==
    /\ \/ s.x1 <= c.x /\ c.x <= s.x2
       \/ s.x2 <= c.x /\ c.x <= s.x1
    /\ \/ s.y1 <= c.y /\ c.y <= s.y2
       \/ s.y2 <= c.y /\ c.y <= s.y1

\* C33: a pointer-down of the select tool selects the first text whose
\* estimated box holds the point; when there is none, the first shape whose
\* control-point box holds it; when there is none, nothing.  The drag offset
\* recorded is the point minus the anchor of the element selected.
C33_FirstTextThenFirstShape ==
    [][\A c \in HitPointInputs :
        (activeTool = "select" /\ Event(handleMouseDown(c), "down", MaxHist))
        => LET ts == {i \in DOMAIN texts : InTextBox(texts[i], c)}
               ss == {i \in DOMAIN shapes : InShapeBox(shapes[i], c)}
           IN  IF ts # {}
               THEN LET t == texts[CHOOSE i \in ts : \A j \in ts : i <= j]
                    IN  /\ selectedElement' = [type |-> "text", id |-> t.id]
                        /\ dragStartPoint' = [x |-> c.x - t.x, y |-> c.y - t.y]
                        /\ isDragging'
               ELSE IF ss # {}
               THEN LET s == shapes[CHOOSE i \in ss : \A j \in ss : i <= j]
                    IN  /\ selectedElement' = [type |-> "shape", id |-> s.id]
                        /\ dragStartPoint' = [x |-> c.x - s.x1, y |-> c.y - s.y1]
                        /\ isDragging'
               ELSE selectedElement' = Null /\ UNCHANGED <<isDragging, dragStartPoint>>]_vars

\* C33 witness: of two texts whose boxes both hold the point, the first is
\* selected, with the offset from its anchor.
C33_Witness ==
    /\ activeTool = "select" /\ isDragging /\ ~crashed
    /\ Len(texts) = 2 /\ texts[1].x = 1 /\ texts[2].x = 3
    /\ startPoint = [x |-> 3, y |-> 3]
    /\ selectedElement = [type |-> "text", id |-> texts[1].id]
    /\ dragStartPoint = [x |-> 2, y |-> 2]


\* C34: whenever no pointer interaction is open, no debounced commit is
\* pending and historyIndex points into the history, the working edit state
\* (adjustments, transforms, paths, texts, shapes) equals
\* history[historyIndex].
C34_IdleEditIsSnapshot ==
    (~isDrawing /\ timers = {} /\ historyIndex \in 0..(Len(history) - 1)) =>
        Edit = history[historyIndex + 1]


\* The session as resetEdits leaves it, with no edit made since.
FreshSession ==
    /\ history = <<INITIAL_EDIT_STATE>>
    /\ historyIndex = 0
    /\ Edit = INITIAL_EDIT_STATE

\* C35: a debounced commit scheduled before a session reset never takes
\* effect in the new session: when its timer fires while the session is still
\* as the reset left it, history stays [INITIAL_EDIT_STATE], historyIndex
\* stays 0 and the edit state stays initial.
C35_StaleCommitDropped ==
    [][\A t \in timers :
         (Fire(t, MaxHist) /\ FreshSession) => FreshSession']_vars


\* The history is the one timer t was scheduled with, one step back: an undo
\* was performed while the commit of t was pending.
UndoneSince(t) ==
    /\ t.cl.history = history
    /\ t.cl.historyIndex = historyIndex + 1
    /\ historyIndex >= 0

\* C36: an undo performed while a debounced commit is pending is not
\* overridden by a stale position: when the timer fires, the new entry sits at
\* (post-undo index + 1), after the entries up to the post-undo index, and
\* the history length becomes (post-undo index + 2).
C36_FireAfterUndoAppendsAtIndex ==
    [][\A t \in timers :
         (Fire(t, MaxHist) /\ UndoneSince(t)) =>
             /\ historyIndex' = historyIndex + 1
             /\ Len(history') = historyIndex + 2
             /\ SubSeq(history', 1, historyIndex + 1) = SubSeq(history, 1, historyIndex + 1)]_vars


\* The collection handleMouseMove writes to with the current tool.
MoveTarget ==
    IF activeTool = "draw" THEN paths
    ELSE IF activeTool = "remove" THEN removeMask
    ELSE shapes

\* handleMouseMove takes its draw/remove or shape branch and finds a last
\* element to write to.
MoveWrites ==
    /\ isDrawing
    /\ activeTool \in {"draw", "remove", "shape"}
    /\ ~MoveThrows

\* C37: whenever handleMouseMove appends a point (draw or remove tool) or
\* overwrites the second control point (shape tool), the target collection is
\* non-empty and its last element is the one created by the latest
\* pointer-down (the element with the newest id).
C37_MoveWritesToOpenedElement ==
    [][\A c \in DrawPointInputs :
         (Move(c) /\ MoveWrites) =>
             /\ MoveTarget # <<>>
             /\ Last(MoveTarget).id = clock - 1]_vars


\* C38: the busy flag isLoading is true whenever at least one external
\* generation call is outstanding.
C38_BusyWhileCallOutstanding ==
    InFlight > 0 => isLoading


\* C39: the response of a selectSubject call started before a session reset
\* is never stored as the subject mask of the new session: when such a call
\* succeeds, subjectMask is left as it was.
C39_StaleMaskNotStored ==
    [][\A img \in ResultInputs :
         (/\ FailEvent(CallResolves("selectSubject", img), "resolve")
          /\ Mounted
          /\ obs.stale > 0
          /\ obs.stale = calls["selectSubject"]) =>
             subjectMask' = subjectMask]_vars


\* C40: if decoding a newly selected main image file fails, the source image,
\* the edit state and the history are the same as before the file was
\* selected (and the failure itself changes only the error message).
C40_FailedUploadKeepsSession ==
    [][(/\ Event(FileReadFails, "fail", MaxHist)
        /\ obs.before # Null
        /\ obs.before[1] # Null) =>
           /\ Session' = obs.before
           /\ error' # error]_vars

=============================================================================
